---- MODULE Spec2Model ----
(***************************************************************************)
(* Holiday party planner: the invitation / token / RSVP core.              *)
(*                                                                         *)
(* The relational store is modelled as sets of rows.  A nullable column is *)
(* an option: None (SQL NULL / Python None) or Some(v).  Time is counted   *)
(* in days.  Each request handler is one action; the outcome of the last   *)
(* request (response, rows it touched, notifications it handed to the      *)
(* dispatch collaborator) is kept in lastOp.                               *)
(***************************************************************************)
EXTENDS Integers, FiniteSets, Sequences, TLC

VARIABLES
    now,            \* datetime.utcnow(), in days
    eventStatus,    \* events.status, per event id
    eventAdmins,    \* event_admins rows with removed_at NULL: <<event_id, person_id>>
    memberships,    \* household_memberships rows
    email,          \* persons.email, per person id
    invitations,    \* event_invitations rows
    rsvps,          \* rsvps rows
    posts,          \* message_wall_posts rows, in insertion order
    contact,        \* persons.phone, sms_opt_in, preferred_contact_method, per person id
    config,         \* app.config: BREVO_API_KEY set, ENABLE_SMS
    notifications,  \* notifications rows, in insertion order
    referrals,      \* guest_referrals rows
    potluckItems,   \* potluck_items rows, per item id
    potluckClaims,  \* potluck_claims rows of each item, in insertion order
    claimRequests,  \* claim_item calls in progress, per worker
    shortTokens,    \* the short_token column of each kind of row, by row id
    generator,      \* the generate_short_token call in progress
    authTokens,     \* auth_tokens rows
    halfHours,      \* the clock of the authentication tokens, in half hours
    tags,           \* tags.usage_count per tag name (the tags rows)
    personTags,     \* person_tags rows
    lastOp,         \* outcome of the most recent request
    reqNo           \* parity of the number of requests served

vars == <<now, eventStatus, eventAdmins, memberships, email, invitations,
          rsvps, posts, contact, config, notifications, referrals,
          potluckItems, potluckClaims, claimRequests, shortTokens, generator,
          authTokens, halfHours, tags, personTags, lastOp, reqNo>>

\* The tables and settings of the notification and bring-a-friend features
messaging == <<contact, config, notifications, referrals>>

\* The tables of the potluck feature and the claim calls in progress
potluck == <<potluckItems, potluckClaims, claimRequests>>

\* Short tokens, authentication tokens and tags
registry == <<shortTokens, generator, authTokens, halfHours, tags, personTags>>

\* The tables of events, households, invitations and RSVPs
core == <<now, eventStatus, eventAdmins, memberships, email, invitations, rsvps, posts>>

---------------------------------------------------------------------------
(* Bounds and fixture                                                      *)

MaxNow == 3
MaxPosts == 1
MaxFriends == 1
MaxLog == 2
MaxRows == 4
MaxHalfHours == 3
MaxDigits == 16

Events == {1, 2}
Households == {1, 2}
Persons == {1, 2, 3}

None == {}
Some(v) == {v}
The(x) == CHOOSE v \in x : TRUE

Notes == {"n"}
AddressOf(p) == <<"mail", p>>

---------------------------------------------------------------------------
(* Configuration                                                           *)

\* config.TOKEN_EXPIRATION_DAYS is read from the environment (default 90);
\* the model runs the deployment that sets it to 2, with time counted in days.
TOKEN_EXPIRATION_DAYS == 2
SECRET_KEY == "dev-secret-key-change-in-production"

\* Column defaults of persons: no phone, no SMS consent, email preferred
DefaultContact ==
    [phone |-> None, sms_opt_in |-> FALSE, preferred_contact_method |-> "email"]

\* The settings of a deployment whose environment sets neither BREVO_API_KEY
\* nor ENABLE_SMS
DefaultConfig == [BREVO_API_KEY |-> FALSE, ENABLE_SMS |-> FALSE]

---------------------------------------------------------------------------
(* Household directory                                                     *)

\* Household.active_members
active_members(h) ==
    {m.person_id : m \in {x \in memberships : x.household_id = h /\ x.left_at = None}}

\* Household.contacts_with_email
contacts_with_email(h) == {p \in active_members(h) : email[p] # None}

\* EventAdmin lookup used by every admin check
is_admin(e, p) == <<e, p>> \in eventAdmins

---------------------------------------------------------------------------
(* RSVP rows                                                               *)

valid_statuses == {"attending", "not_attending", "maybe", "no_response"}

\* RSVP(event_id, person_id, household_id, status="no_response")
NewRSVP(e, p, h) ==
    [event_id |-> e, person_id |-> p, household_id |-> h,
     status |-> "no_response", responded_at |-> None, notes |-> None,
     updated_by_person_id |-> None, updated_by_host |-> FALSE]

\* update_status with the else branch that clears responded_at left out
update_status_NoClear(r, new_status, notes, updated_by_person_id, updated_by_host) ==
    [r EXCEPT !.status = new_status,
              !.notes = IF notes # None THEN notes ELSE @,
              !.responded_at = IF new_status # "no_response" THEN Some(now) ELSE @,
              !.updated_by_person_id = updated_by_person_id,
              !.updated_by_host = updated_by_host]

\* The body of RSVP.update_status once the status has been validated.
\* notes, updated_by_person_id are options.
update_status(r, new_status, notes, updated_by_person_id, updated_by_host) ==
    [r EXCEPT !.status = new_status,
              !.notes = IF notes # None THEN notes ELSE @,
              !.responded_at = IF new_status # "no_response" THEN Some(now) ELSE None,
              !.updated_by_person_id = updated_by_person_id,
              !.updated_by_host = updated_by_host]

RsvpsFor(e, p) == {r \in rsvps : r.event_id = e /\ r.person_id = p}

---------------------------------------------------------------------------
(* Signed-token codec (itsdangerous URLSafeTimedSerializer)                *)

\* The signature binds the key, the salt, the payload and the timestamp.
Signature(key, salt, payload, ts) ==
    [key |-> key, salt |-> salt, payload |-> payload, ts |-> ts]

\* serializer.dumps(payload, salt=salt) at time ts
dumps(payload, salt, ts) ==
    [payload |-> payload, ts |-> ts,
     sig |-> Signature(SECRET_KEY, salt, payload, ts)]

\* loads checking the signature under whatever salt the token was signed with
loads_AnySalt(token, salt, max_age) ==
    IF token.sig # Signature(SECRET_KEY, token.sig.salt, token.payload, token.ts)
    THEN None
    ELSE IF max_age # None /\ now - token.ts > The(max_age)
         THEN None
         ELSE Some(token.payload)

\* serializer.loads(token, salt=salt, max_age=max_age): Some(payload), or
\* None where the library raises BadSignature / SignatureExpired.
loads(token, salt, max_age) ==
    IF token.sig # Signature(SECRET_KEY, salt, token.payload, token.ts)
    THEN None
    ELSE IF max_age # None /\ now - token.ts > The(max_age)
         THEN None
         ELSE Some(token.payload)

\* EventInvitation.generate_token: the token value
InvitationToken(e, h, ts) ==
    dumps([event_id |-> e, household_id |-> h], "rsvp-token", ts)

\* EventInvitation.verify_token(token, max_age=None)
EventInvitation_verify_token(token, max_age) ==
    loads(token, "rsvp-token", max_age)

\* EventInvitation(event_id, household_id) followed by generate_token()
NewInvitation(id, e, h) ==
    [id |-> id, event_id |-> e, household_id |-> h,
     invitation_token |-> Some(InvitationToken(e, h, now)),
     token_expires_at |-> Some(now + TOKEN_EXPIRATION_DAYS),
     short_token |-> None,
     sent_at |-> None, sent_count |-> 0, last_sent_at |-> None,
     sms_sent_at |-> None, sms_sent_count |-> 0, sms_last_sent_at |-> None]

InvitationsFor_AnyEvent(e, h) == {i \in invitations : i.household_id = h}

InvitationsFor(e, h) ==
    {i \in invitations : i.event_id = e /\ i.household_id = h}

---------------------------------------------------------------------------
(* Request bookkeeping                                                     *)

NoOp ==
    [name |-> "none", response |-> "none", at |-> 0, event |-> None, actor |-> None,
     household |-> None, invitation |-> None, token |-> None,
     rsvp |-> None, status |-> None, ret |-> None,
     updated |-> {}, changed |-> {}, batches |-> 0, dispatched |-> {},
     invalid |-> FALSE, calls |-> << >>, person |-> None, referral |-> None,
     email_sent |-> FALSE, address |-> None, fresh |-> FALSE, outcome |-> None,
     data |-> << >>, dispatch_attempted |-> FALSE, item |-> None,
     committed_before_dispatch |-> FALSE]

Served(op) ==
    /\ lastOp' = [op EXCEPT !.at = now]
    /\ reqNo' = 1 - reqNo

---------------------------------------------------------------------------
(* Notification provider and audit log                                     *)

\* What the provider call of one send does: it returns, raises ApiException
\* or raises something else.
Outcomes == {"sent", "ApiException", "Exception"}

\* The outcomes a caller can meet for the sends to the targets: the provider
\* is only called when the API key is configured.
ProviderOutcomes(targets) ==
    IF config.BREVO_API_KEY THEN [targets -> Outcomes]
    ELSE {[t \in targets |-> "sent"]}

\* A Notification row after mark_sent() / mark_failed()
Notification(e, p, type, channel, status) ==
    [event_id |-> e, person_id |-> p, notification_type |-> type,
     channel |-> channel, status |-> status]

\* A send that returned False before the provider was called
NoSend == [ok |-> FALSE, rows |-> << >>, calls |-> << >>]

\* send_email that swallows a provider failure without logging it
send_email_Unlogged(e, p, outcome) ==
    IF ~ config.BREVO_API_KEY THEN NoSend
    ELSE [ok |-> outcome = "sent",
          rows |-> IF outcome = "sent"
                   THEN <<Notification(e, p, "email", "email", "sent")>>
                   ELSE << >>,
          calls |-> <<[event |-> e, person |-> p, channel |-> "email",
                       ok |-> outcome = "sent"]>>]

\* NotificationService.send_email(..., event, person) with the provider
\* call ending in outcome.  ok: the return value; rows: the Notification
\* rows it commits; calls: the provider calls it made.
send_email(e, p, outcome) ==
    IF ~ config.BREVO_API_KEY THEN NoSend
    ELSE [ok |-> outcome = "sent",
          rows |-> <<Notification(e, p, "email", "email",
                                  IF outcome = "sent" THEN "sent" ELSE "failed")>>,
          calls |-> <<[event |-> e, person |-> p, channel |-> "email",
                       ok |-> outcome = "sent"]>>]

\* NotificationService.send_sms(to_phone, content, event, person)
send_sms(e, p, outcome) ==
    IF ~ config.ENABLE_SMS \/ ~ config.BREVO_API_KEY \/ contact[p].phone = None
    THEN NoSend
    ELSE [ok |-> outcome = "sent",
          rows |-> <<Notification(e, p, "invitation", "sms",
                                  IF outcome = "sent" THEN "sent" ELSE "failed")>>,
          calls |-> <<[event |-> e, person |-> p, channel |-> "sms",
                       ok |-> outcome = "sent"]>>]

\* The ids of a set of rows' persons in ascending order (query order)
RECURSIVE InOrder(_)
InOrder(S) ==
    IF S = {} THEN << >>
    ELSE LET first == CHOOSE x \in S : \A y \in S : x <= y
         IN  <<first>> \o InOrder(S \ {first})

\* One send_email(event, person) per listed person, in order
RECURSIVE SendEach(_, _, _)
SendEach(e, people, outcome) ==
    IF people = << >> THEN NoSend
    ELSE LET one == send_email(e, Head(people), outcome[Head(people)])
             rest == SendEach(e, Tail(people), outcome)
         IN  [ok |-> one.ok \/ rest.ok, rows |-> one.rows \o rest.rows,
              calls |-> one.calls \o rest.calls]

---------------------------------------------------------------------------
(* Notification dispatch                                                   *)

\* NotificationService.send_household_rsvp_confirmation: one combined
\* household email per active member that has an email address.
send_household_rsvp_confirmation(e, h, mail) ==
    {[kind |-> "household_rsvp_confirmation", to |-> c] :
        c \in {p \in active_members(h) : mail[p] # None}}

---------------------------------------------------------------------------
(* Self-service RSVP                                                       *)

\* RSVP.query.filter_by(event_id, person_id, household_id).first()
HouseholdRsvp(e, p, h) ==
    {r \in rsvps : r.event_id = e /\ r.person_id = p /\ r.household_id = h}

\* RSVPService.update_household_rsvps(event, household, rsvp_data), with the
\* persons.email column as it stands when the service runs.
\* olds: the rows the loop finds; error: update_status raised ValueError and
\* nothing was committed; changed: the persons whose stored status differed
\* from the submitted one (the service itself computes no such set).
update_household_rsvps(e, h, rsvp_data, mail) ==
    \* .first() of each lookup
    LET olds == {CHOOSE r \in HouseholdRsvp(e, p, h) : TRUE :
                    p \in {q \in DOMAIN rsvp_data : HouseholdRsvp(e, q, h) # {}}}
    IN  IF \E r \in olds : rsvp_data[r.person_id].status \notin valid_statuses
        THEN [error |-> TRUE, rsvps |-> rsvps, updated |-> {}, changed |-> {},
              batches |-> 0, dispatched |-> {}]
        ELSE [error |-> FALSE,
              rsvps |-> (rsvps \ olds) \cup
                        {update_status(r, rsvp_data[r.person_id].status,
                                       rsvp_data[r.person_id].notes, None, FALSE) :
                            r \in olds},
              updated |-> {r.person_id : r \in olds},
              changed |-> {r.person_id :
                            r \in {x \in olds : x.status # rsvp_data[x.person_id].status}},
              batches |-> IF olds # {} THEN 1 ELSE 0,
              dispatched |-> IF olds # {}
                             THEN send_household_rsvp_confirmation(e, h, mail)
                             ELSE {}]

\* valid_rsvp_token_required: the invitation rows the token resolves to
\* (empty: the request is redirected away).  token is an option.
valid_rsvp_token_required(token) ==
    IF token = None THEN {}
    ELSE LET token_data == EventInvitation_verify_token(The(token), None)
         IN  IF token_data = None THEN {}
             ELSE InvitationsFor(The(token_data).event_id,
                                 The(token_data).household_id)

\* persons.email after the contact-info block of submit_rsvp
ContactUpdate(form) ==
    [p \in DOMAIN email |->
        IF p \in DOMAIN form /\ form[p].email # None /\ email[p] = None
        THEN form[p].email ELSE email[p]]

\* POST /event/<uuid>/rsvp/submit
submit_rsvp(token, event, form) ==
    \E granted \in {valid_rsvp_token_required(token)} :
    LET op == [NoOp EXCEPT !.name = "submit_rsvp", !.event = Some(event),
                           !.token = token]
    IN  IF granted = {}
        THEN /\ Served([op EXCEPT !.response = "denied"])
             /\ UNCHANGED <<email, rsvps, notifications>>
        ELSE
        \E invitation \in {CHOOSE i \in granted : TRUE} :
        \E household \in {invitation.household_id} :
        LET hop == [op EXCEPT !.household = Some(household),
                              !.invitation = Some(invitation.id)]
        IN  IF \E p \in DOMAIN form : p \notin active_members(household)
            THEN /\ Served([hop EXCEPT !.response = "invalid_person"])
                 /\ UNCHANGED <<email, rsvps, notifications>>
            ELSE IF \E p \in DOMAIN form : form[p].status \notin valid_statuses
            THEN /\ Served([hop EXCEPT !.response = "invalid_status"])
                 /\ UNCHANGED <<email, rsvps, notifications>>
            ELSE IF DOMAIN form = {}
            THEN /\ Served([hop EXCEPT !.response = "no_data"])
                 /\ UNCHANGED <<email, rsvps, notifications>>
            ELSE \E mail \in {ContactUpdate(form)} :
                 \E res \in {update_household_rsvps(event, household, form, mail)} :
                 \E outcome \in ProviderOutcomes({d.to : d \in res.dispatched}) :
                 \E sent \in {SendEach(event, InOrder({d.to : d \in res.dispatched}),
                                        outcome)} :
                 /\ email' = mail
                 /\ rsvps' = res.rsvps
                 /\ notifications' = notifications \o sent.rows
                 /\ Served([hop EXCEPT
                        !.calls = sent.calls,
                        !.name = "update_household_rsvps",
                        !.response = IF res.error THEN "error"
                                     ELSE IF res.updated # {} THEN "recorded"
                                     ELSE "none_updated",
                        !.updated = res.updated, !.changed = res.changed,
                        !.batches = res.batches, !.dispatched = res.dispatched])

\* Forms: a status per listed person; the notes and the contact email the
\* form carries are the same for every listed person.
StatusMaps(people, statuses) == UNION {[S -> statuses] : S \in SUBSET people}

FormOf(st, notes, mail) ==
    [p \in DOMAIN st |-> [status |-> st[p], notes |-> notes, email |-> mail]]

Forms(people, notes, mails) ==
    {FormOf(st, n, m) : st \in StatusMaps(people, valid_statuses), n \in notes, m \in mails}

\* Forms the route must refuse: a person of another household, a status
\* outside the enum, alone or next to a valid entry.
BadForms ==
    {FormOf(st, None, None) :
        st \in {(3 :> "attending"), (1 :> "bogus"), (1 :> "attending" @@ 2 :> "bogus")}}

\* Tokens a client may present: none, the token of an invitation row, or a
\* token whose payload was altered after signing.
PresentableTokens ==
    {None}
    \cup {i.invitation_token : i \in invitations}
    \cup {Some([The(i.invitation_token) EXCEPT !.payload.household_id = h]) :
            i \in {j \in invitations : j.invitation_token # None}, h \in Households}

SubmitRsvp(forms) ==
    \E token \in PresentableTokens, event \in Events :
        IF valid_rsvp_token_required(token) = {}
        THEN /\ submit_rsvp(token, event, << >>)
             /\ UNCHANGED <<registry, potluck, now, eventStatus, eventAdmins, memberships, invitations, posts,
                            contact, config, referrals>>
        ELSE \E form \in forms :
             /\ submit_rsvp(token, event, form)
             /\ UNCHANGED <<registry, potluck, now, eventStatus, eventAdmins, memberships, invitations, posts,
                            contact, config, referrals>>

\* What rendering the email template of a confirmation does: it returns the
\* HTML or raises, outside the try block of send_email.
RenderOutcomes == {"rendered", "TemplateError"}

\* The statements of update_rsvp with the confirmation sent before the commit
update_rsvp_order_SendFirst == <<"update_status", "send", "commit">>

\* The statements of update_rsvp in the order they run
update_rsvp_order == <<"update_status", "commit", "send">>

\* The statements of update_household_rsvps in the order they run
update_household_rsvps_order == <<"update_status", "commit", "send">>

Position(order, statement) == CHOOSE k \in DOMAIN order : order[k] = statement

CommitPrecedesSend(order) == Position(order, "commit") < Position(order, "send")

\* The rsvps table once the call is over.  before: the committed rows;
\* session: the rows as mutated in the session; raised: an exception left
\* the call from its send statement.  A session that was not committed when
\* the exception left is rolled back.
Settled(order, before, session, raised) ==
    IF raised /\ ~ CommitPrecedesSend(order) THEN before ELSE session

\* RSVPService.update_household_rsvps called by a caller other than the
\* submit route, with a map the caller did not screen.  invalid: some entry
\* of the map carries a status outside the enum.  render: what rendering
\* the confirmation template does.
service_update_household_rsvps(e, h, rsvp_data, render) ==
    \E res \in {update_household_rsvps(e, h, rsvp_data, email)} :
    \E raised \in {res.dispatched # {} /\ render = "TemplateError"} :
    \E outcome \in ProviderOutcomes({d.to : d \in res.dispatched}) :
    \E sent \in {IF raised THEN NoSend
                  ELSE SendEach(e, InOrder({d.to : d \in res.dispatched}), outcome)} :
        /\ rsvps' = Settled(update_household_rsvps_order, rsvps, res.rsvps, raised)
        /\ notifications' = notifications \o sent.rows
        /\ Served([NoOp EXCEPT
                !.name = "RSVPService.update_household_rsvps",
                !.event = Some(e), !.household = Some(h),
                !.response = IF res.error THEN "ValueError"
                             ELSE IF raised THEN "TemplateError" ELSE "returned",
                !.invalid = \E p \in DOMAIN rsvp_data :
                                rsvp_data[p].status \notin valid_statuses,
                !.updated = res.updated, !.changed = res.changed,
                !.batches = res.batches, !.dispatched = res.dispatched,
                !.data = rsvp_data,
                !.dispatch_attempted = res.dispatched # {},
                !.committed_before_dispatch =
                    CommitPrecedesSend(update_household_rsvps_order),
                !.calls = sent.calls])

\* RSVPService.update_rsvp(rsvp, status, notes) followed by
\* NotificationService.send_rsvp_confirmation(rsvp).  r: an RSVP row.
service_update_rsvp(r, status, notes, render, outcome) ==
    IF status \notin valid_statuses
    THEN /\ UNCHANGED <<rsvps, notifications>>
         /\ Served([NoOp EXCEPT
                !.name = "RSVPService.update_rsvp", !.response = "ValueError",
                !.event = Some(r.event_id), !.person = Some(r.person_id),
                !.invalid = TRUE])
    ELSE \E session \in {(rsvps \ {r}) \cup
                            {update_status(r, status, notes, None, FALSE)}} :
         \E attempted \in {email[r.person_id] # None} :
         \E raised \in {attempted /\ render = "TemplateError"} :
         \E sent \in {IF attempted /\ ~ raised
                       THEN send_email(r.event_id, r.person_id, outcome)
                       ELSE NoSend} :
            /\ rsvps' = Settled(update_rsvp_order, rsvps, session, raised)
            /\ notifications' = notifications \o sent.rows
            /\ Served([NoOp EXCEPT
                    !.name = "RSVPService.update_rsvp",
                    !.response = IF raised THEN "TemplateError" ELSE "returned",
                    !.event = Some(r.event_id), !.person = Some(r.person_id),
                    !.status = Some(status),
                    !.updated = {r.person_id},
                    !.changed = IF r.status # status THEN {r.person_id} ELSE {},
                    !.data = [q \in {r.person_id} |->
                                [status |-> status, notes |-> notes]],
                    !.dispatch_attempted = attempted,
                    !.committed_before_dispatch =
                        CommitPrecedesSend(update_rsvp_order),
                    !.calls = sent.calls])

ServiceUpdateRsvp ==
    \E r \in rsvps, status \in {"attending", "not_attending", "bogus"},
       render \in RenderOutcomes, outcome \in Outcomes :
        /\ Len(notifications) < MaxLog
        /\ service_update_rsvp(r, status, None, render, outcome)
        /\ UNCHANGED <<registry, potluck, now, eventStatus, eventAdmins, memberships, email,
                       invitations, posts, contact, config, referrals>>

\* rsvp_data maps: person id -> {status, notes}
ServiceData(people, statuses) ==
    {[p \in DOMAIN st |-> [status |-> st[p], notes |-> None]] :
        st \in StatusMaps(people, statuses)}

ServiceUpdate(maps) ==
    \E e \in Events, h \in Households, rsvp_data \in maps, render \in RenderOutcomes :
        /\ Len(notifications) < MaxLog
        /\ service_update_household_rsvps(e, h, rsvp_data, render)
        /\ UNCHANGED <<registry, potluck, now, eventStatus, eventAdmins, memberships, email,
                       invitations, posts, contact, config, referrals>>

---------------------------------------------------------------------------
(* Invitations                                                             *)

\* Autoincrement primary key
NextId(rows) ==
    IF rows = {} THEN 1
    ELSE (CHOOSE i \in {r.id : r \in rows} : \A j \in {r.id : r \in rows} : j <= i) + 1

\* create_invitation without its lookup of an existing row
ExistingInvitation_Skipped(e, h) == {}

\* EventInvitation.query.filter_by(event_id, household_id).first()
ExistingInvitation(e, h) == InvitationsFor(e, h)

\* RSVPService.create_rsvps_for_household(event, household) on table rows
create_rsvps_for_household(e, h, rows) ==
    rows \cup {NewRSVP(e, m, h) :
                m \in {p \in active_members(h) :
                        ~ \E r \in rows : r.event_id = e /\ r.person_id = p}}

\* InvitationService.create_invitation(event, household).  The insert is
\* subject to the unique constraint on (event_id, household_id).
create_invitation(e, h) ==
    \E existing \in {ExistingInvitation(e, h)} :
    LET op == [NoOp EXCEPT !.name = "create_invitation", !.event = Some(e),
                           !.household = Some(h)]
    IN  IF existing # {}
        THEN /\ Served([op EXCEPT !.response = "existing",
                                  !.ret = Some((CHOOSE i \in existing : TRUE).id)])
             /\ UNCHANGED <<invitations, rsvps>>
        ELSE IF InvitationsFor(e, h) # {}
        THEN /\ Served([op EXCEPT !.response = "integrity_error"])
             /\ UNCHANGED <<invitations, rsvps>>
        ELSE \E id \in {NextId(invitations)} :
             /\ invitations' = invitations \cup {NewInvitation(id, e, h)}
             /\ rsvps' = create_rsvps_for_household(e, h, rsvps)
             /\ Served([op EXCEPT !.response = "created", !.ret = Some(id)])

CreateInvitation ==
    \E e \in Events, h \in Households :
        /\ create_invitation(e, h)
        /\ UNCHANGED <<registry, potluck, messaging, now, eventStatus, eventAdmins, memberships, email, posts>>

\* The source invitations copy_guest_list_from_event still has to copy,
\* in id order.
RECURSIVE CopyRows(_, _, _)
CopyRows(target, households, id) ==
    IF households = << >> THEN {}
    ELSE {[id |-> id, event_id |-> target, household_id |-> Head(households),
           invitation_token |-> None, token_expires_at |-> None,
           short_token |-> None,
           sent_at |-> None, sent_count |-> 0, last_sent_at |-> None,
           sms_sent_at |-> None, sms_sent_count |-> 0, sms_last_sent_at |-> None]}
         \cup CopyRows(target, Tail(households), id + 1)

RECURSIVE ById(_)
ById(rows) ==
    IF rows = {} THEN << >>
    ELSE LET first == CHOOSE r \in rows : \A q \in rows : r.id <= q.id
         IN  <<first>> \o ById(rows \ {first})

\* EventService.copy_guest_list_from_event(target_event, source_event)
copy_guest_list_from_event(target, source) ==
    LET todo == {i \in invitations :
                    i.event_id = source /\ InvitationsFor(target, i.household_id) = {}}
        order == ById(todo)
        households == [k \in 1..Len(order) |-> order[k].household_id]
    IN  /\ invitations' = invitations \cup CopyRows(target, households, NextId(invitations))
        /\ Served([NoOp EXCEPT !.name = "copy_guest_list_from_event",
                               !.event = Some(target), !.response = "copied",
                               !.ret = Some(Cardinality(todo))])

CopyGuestList ==
    \E target \in Events, source \in Events :
        /\ target # source
        /\ copy_guest_list_from_event(target, source)
        /\ UNCHANGED <<registry, potluck, messaging, now, eventStatus, eventAdmins, memberships, email, rsvps, posts>>

\* GET /organizer/event/<uuid>: login_required, event_admin_required, then
\* create_rsvps_for_household for every invitation of the event.
RECURSIVE EnsureRsvps(_, _, _)
EnsureRsvps(e, hs, rows) ==
    IF hs = {} THEN rows
    ELSE LET h == CHOOSE x \in hs : TRUE
         IN  EnsureRsvps(e, hs \ {h}, create_rsvps_for_household(e, h, rows))

event_dashboard(actor, e) ==
    LET op == [NoOp EXCEPT !.name = "event_dashboard", !.event = Some(e),
                           !.actor = actor]
    IN  IF actor = None \/ ~ is_admin(e, The(actor))
        THEN /\ Served([op EXCEPT !.response = "denied"])
             /\ UNCHANGED rsvps
        ELSE /\ rsvps' = EnsureRsvps(e, {i.household_id :
                                            i \in {j \in invitations : j.event_id = e}},
                                     rsvps)
             /\ Served([op EXCEPT !.response = "ok"])

EventDashboard ==
    \E actor \in {None} \cup {Some(p) : p \in Persons}, e \in Events :
        /\ event_dashboard(actor, e)
        /\ UNCHANGED <<registry, potluck, messaging, now, eventStatus, eventAdmins, memberships, email,
                       invitations, posts>>

\* GET /event/<uuid>/rsvp: valid_rsvp_token_required, then an RSVP row for
\* every active member that has none among the household's rows for the
\* event.  The insert is subject to the unique constraint on
\* (event_id, person_id).
rsvp_form(token, event) ==
    \E granted \in {valid_rsvp_token_required(token)} :
    LET op == [NoOp EXCEPT !.name = "rsvp_form", !.event = Some(event),
                           !.token = token]
    IN  IF granted = {}
        THEN /\ Served([op EXCEPT !.response = "denied"])
             /\ UNCHANGED rsvps
        ELSE
        \E invitation \in {CHOOSE i \in granted : TRUE} :
        LET household == invitation.household_id
            new == {NewRSVP(event, m, household) :
                      m \in {p \in active_members(household) :
                              HouseholdRsvp(event, p, household) = {}}}
            hop == [op EXCEPT !.household = Some(household),
                              !.invitation = Some(invitation.id)]
        IN  IF \E r \in new : RsvpsFor(event, r.person_id) # {}
            THEN /\ Served([hop EXCEPT !.response = "integrity_error"])
                 /\ UNCHANGED rsvps
            ELSE /\ rsvps' = rsvps \cup new
                 /\ Served([hop EXCEPT !.response = "ok"])

RsvpForm ==
    \E token \in PresentableTokens, event \in Events :
        /\ rsvp_form(token, event)
        /\ UNCHANGED <<registry, potluck, messaging, now, eventStatus, eventAdmins, memberships, email,
                       invitations, posts>>

---------------------------------------------------------------------------
(* Host override                                                           *)

\* The invitation lookup made on the household alone, for any event
HostInvitation_AnyEvent(e, r) == {i \in invitations : i.household_id = r.household_id}

\* event.invitations.filter_by(household_id=rsvp.household_id).first()
HostInvitation(e, r) == InvitationsFor(e, r.household_id)

\* update_rsvp_by_host stamping the row like a self-service update
update_rsvp_by_host_Unstamped(r, status, host_person_id, notes) ==
    [rsvp |-> update_status(r, status, notes, Some(host_person_id), FALSE),
     dispatched |-> {}]

\* RSVPService.update_rsvp_by_host(rsvp, status, host_person_id, notes):
\* the stored row and what is handed to the notification dispatch.
update_rsvp_by_host(r, status, host_person_id, notes) ==
    [rsvp |-> update_status(r, status, notes, Some(host_person_id), TRUE),
     dispatched |-> {}]

\* POST /api/event/<uuid>/rsvp/<id>/update.  actor: session person (option);
\* r: the row RSVP.query.get finds; body: the JSON body (option).
api_update_rsvp_by_host(actor, e, r, body) ==
    LET op == [NoOp EXCEPT !.name = "update_rsvp_by_host", !.event = Some(e),
                           !.actor = actor,
                           !.rsvp = Some(<<r.event_id, r.person_id>>)]
        reject(code) == /\ Served([op EXCEPT !.response = code])
                        /\ UNCHANGED rsvps
    IN  IF r.event_id # e THEN reject("400 wrong_event")
        ELSE IF HostInvitation(e, r) = {} THEN reject("400 not_invited")
        ELSE IF body = None THEN reject("400 no_json")
        ELSE IF The(body).status = None THEN reject("400 no_status")
        ELSE IF The(The(body).status) \notin valid_statuses
        THEN reject("400 invalid_status")
        ELSE \E res \in {update_rsvp_by_host(r, The(The(body).status), The(actor),
                                             The(body).notes)} :
             /\ rsvps' = (rsvps \ {r}) \cup {res.rsvp}
             /\ Served([op EXCEPT !.response = "200", !.status = The(body).status,
                                  !.dispatched = res.dispatched])

HostBodies(statuses, notes) ==
    {None} \cup {Some(b) : b \in [status : {None} \cup {Some(st) : st \in statuses},
                                 notes : notes]}

HostUpdate(bodies) ==
    \E actor \in {None} \cup {Some(p) : p \in Persons}, e \in Events :
        /\ UNCHANGED <<registry, potluck, messaging, now, eventStatus, eventAdmins, memberships, email,
                       invitations, posts>>
        /\ IF actor = None
           THEN /\ Served([NoOp EXCEPT !.name = "update_rsvp_by_host",
                                       !.event = Some(e), !.response = "401"])
                /\ UNCHANGED rsvps
           ELSE IF ~ is_admin(e, The(actor))
           THEN /\ Served([NoOp EXCEPT !.name = "update_rsvp_by_host",
                                       !.event = Some(e), !.actor = actor,
                                       !.response = "403"])
                /\ UNCHANGED rsvps
           ELSE \E r \in rsvps :
                IF r.event_id # e \/ HostInvitation(e, r) = {}
                THEN api_update_rsvp_by_host(actor, e, r, None)
                ELSE \E body \in bodies : api_update_rsvp_by_host(actor, e, r, body)

---------------------------------------------------------------------------
(* Event lifecycle and message wall                                        *)

\* EventService.archive_event(event)
ArchiveEvent ==
    \E e \in Events :
        /\ eventStatus[e] # "archived"
        /\ eventStatus' = [eventStatus EXCEPT ![e] = "archived"]
        /\ Served([NoOp EXCEPT !.name = "archive_event", !.event = Some(e),
                               !.response = "ok"])
        /\ UNCHANGED <<registry, potluck, messaging, now, eventAdmins, memberships, email, invitations, rsvps, posts>>

max_length == 2000

\* POST /event/<uuid>/message.  length: of the stripped message text;
\* session_person, invited_person, form_person: options.  With neither usable the first
\* active member posts; the query sets no order.
post_message(token, event, length, session_person, invited_person, form_person) ==
    \E granted \in {valid_rsvp_token_required(token)} :
    LET op == [NoOp EXCEPT !.name = "post_message", !.event = Some(event),
                           !.actor = session_person, !.token = token]
    IN  IF granted = {}
        THEN /\ Served([op EXCEPT !.response = "denied"])
             /\ UNCHANGED posts
        ELSE
        \E invitation \in {CHOOSE i \in granted : TRUE} :
        LET household == invitation.household_id
            hop == [op EXCEPT !.household = Some(household),
                              !.invitation = Some(invitation.id)]
            candidates ==
                IF session_person # None THEN session_person
                ELSE IF invited_person # None
                        /\ The(invited_person) \in active_members(household)
                THEN invited_person
                ELSE IF form_person # None /\ The(form_person) \in active_members(household)
                THEN form_person
                ELSE active_members(household)
        IN  IF length = 0 \/ length > max_length
            THEN /\ Served([hop EXCEPT !.response = "rejected"])
                 /\ UNCHANGED posts
            ELSE IF candidates = {}
            THEN /\ Served([hop EXCEPT !.response = "no_person"])
                 /\ UNCHANGED posts
            ELSE \E person \in candidates :
                 /\ posts' = Append(posts,
                        [event_id |-> event, person_id |-> person, length |-> length,
                         is_organizer_post |-> is_admin(event, person)])
                 /\ Served([hop EXCEPT !.response = "posted"])

PostMessage ==
    \E token \in PresentableTokens, event \in Events :
        /\ Len(posts) < MaxPosts
        /\ UNCHANGED <<registry, potluck, messaging, now, eventStatus, eventAdmins, memberships, email,
                       invitations, rsvps>>
        /\ IF valid_rsvp_token_required(token) = {}
           THEN post_message(token, event, 1, None, None, None)
           ELSE \E length \in {0, 1, max_length + 1},
                   who \in {<<None, None, None>>, <<Some(3), None, None>>,
                            <<None, Some(2), None>>, <<None, Some(3), Some(1)>>,
                            <<None, None, Some(3)>>} :
                post_message(token, event, length, who[1], who[2], who[3])

---------------------------------------------------------------------------
(* Token verification                                                      *)

\* GuestReferral.generate_token: the token value
ReferralToken(e, p, referral_id, ts) ==
    dumps([event_id |-> e, referred_person_id |-> p, referral_id |-> referral_id,
           type |-> "guest_referral"], "guest-referral-token", ts)

\* GuestReferral.verify_token(token)
GuestReferral_verify_token(token) ==
    \* token_data.get("type")
    LET type(d) == IF "type" \in DOMAIN d THEN Some(d.type) ELSE None
        token_data == loads(token, "guest-referral-token", Some(TOKEN_EXPIRATION_DAYS))
    IN  IF token_data = None THEN None
        ELSE IF type(The(token_data)) # Some("guest_referral") THEN None
        ELSE token_data

\* Every token either generator can have issued by now
IssuedInvitationTokens ==
    {InvitationToken(e, h, ts) : e \in Events, h \in Households, ts \in 0..now}

IssuedReferralTokens ==
    {ReferralToken(e, p, 1, ts) : e \in Events, p \in Persons, ts \in 0..now}

VerifyInvitationToken ==
    \E token \in IssuedInvitationTokens \cup IssuedReferralTokens :
        /\ Served([NoOp EXCEPT !.name = "EventInvitation.verify_token",
                               !.token = Some(token),
                               !.ret = EventInvitation_verify_token(token, None)])
        /\ UNCHANGED <<registry, potluck, messaging, now, eventStatus, eventAdmins, memberships, email,
                       invitations, rsvps, posts>>

VerifyReferralToken ==
    \E token \in IssuedInvitationTokens \cup IssuedReferralTokens :
        /\ Served([NoOp EXCEPT !.name = "GuestReferral.verify_token",
                               !.token = Some(token),
                               !.ret = GuestReferral_verify_token(token)])
        /\ UNCHANGED <<registry, potluck, messaging, now, eventStatus, eventAdmins, memberships, email,
                       invitations, rsvps, posts>>

\* A day passes
Tick ==
    /\ now < MaxNow
    /\ now' = now + 1
    /\ UNCHANGED <<registry, potluck, messaging, eventStatus, eventAdmins, memberships, email, invitations,
                   rsvps, posts, lastOp, reqNo>>

---------------------------------------------------------------------------
(* Removing invitations                                                    *)

\* POST /event/<uuid>/guests/<household_id>/remove, by a logged-in person
remove_invitation(e, h, actor) ==
    LET op == [NoOp EXCEPT !.name = "remove_invitation", !.event = Some(e),
                           !.household = Some(h), !.actor = Some(actor)]
    IN  IF ~ is_admin(e, actor)
        THEN /\ Served([op EXCEPT !.response = "forbidden"])
             /\ UNCHANGED <<invitations, rsvps>>
        ELSE IF InvitationsFor(e, h) = {}
        THEN /\ Served([op EXCEPT !.response = "not_found"])
             /\ UNCHANGED <<invitations, rsvps>>
        ELSE \E invitation \in {CHOOSE i \in InvitationsFor(e, h) : TRUE} :
             /\ rsvps' = {r \in rsvps : ~ (r.event_id = e /\ r.household_id = h)}
             /\ invitations' = invitations \ {invitation}
             /\ Served([op EXCEPT !.response = "removed",
                                  !.invitation = Some(invitation.id)])

RemoveInvitation(households, actors) ==
    \E e \in Events, h \in households, actor \in actors :
        /\ remove_invitation(e, h, actor)
        /\ UNCHANGED <<registry, potluck, messaging, now, eventStatus, eventAdmins,
                       memberships, email, posts>>

\* create_invitation while the id counter is within the bound
Reinvite(households) ==
    \E e \in Events, h \in households :
        /\ NextId(invitations) <= MaxRows
        /\ create_invitation(e, h)
        /\ UNCHANGED <<registry, potluck, messaging, now, eventStatus, eventAdmins,
                       memberships, email, posts>>

\* The token-protected routes reached with a link that was sent out earlier
SubmitWithToken(tokens, forms) ==
    \E token \in tokens, event \in Events, form \in forms :
        /\ submit_rsvp(Some(token), event, form)
        /\ UNCHANGED <<registry, potluck, now, eventStatus, eventAdmins, memberships,
                       invitations, posts, contact, config, referrals>>

PostWithToken(tokens) ==
    \E token \in tokens, event \in Events :
        /\ Len(posts) < MaxPosts
        /\ post_message(Some(token), event, 1, None, None, None)
        /\ UNCHANGED <<registry, potluck, messaging, now, eventStatus, eventAdmins,
                       memberships, email, invitations, rsvps>>

ViewWithToken(tokens) ==
    \E token \in tokens, event \in Events :
        /\ rsvp_form(Some(token), event)
        /\ UNCHANGED <<registry, potluck, messaging, now, eventStatus, eventAdmins,
                       memberships, email, invitations, posts>>

---------------------------------------------------------------------------
(* Sending invitations                                                     *)

\* Person.can_receive_sms
can_receive_sms(p) ==
    /\ contact[p].phone # None
    /\ contact[p].sms_opt_in
    /\ contact[p].preferred_contact_method \in {"sms", "both"}

\* Person.can_receive_email
can_receive_email(p) ==
    /\ email[p] # None
    /\ contact[p].preferred_contact_method \in {"email", "both"}

\* NotificationService.send_invitation_email(invitation, contact_person)
send_invitation_email(i, p, outcome) ==
    IF email[p] = None THEN NoSend ELSE send_email(i.event_id, p, outcome)

\* NotificationService.send_invitation_sms(invitation, contact_person)
send_invitation_sms(i, p, outcome) ==
    IF ~ config.ENABLE_SMS \/ contact[p].phone = None THEN NoSend
    ELSE send_sms(i.event_id, p, outcome)

\* mark_as_sent that counts the send without recording when it was first made
mark_as_sent_CountOnly(i) ==
    [i EXCEPT !.last_sent_at = Some(now), !.sent_count = @ + 1]

\* EventInvitation.mark_as_sent
mark_as_sent(i) ==
    [i EXCEPT !.sent_at = IF @ = None THEN Some(now) ELSE @,
              !.last_sent_at = Some(now),
              !.sent_count = @ + 1]

\* EventInvitation.mark_sms_as_sent
mark_sms_as_sent(i) ==
    [i EXCEPT !.sms_sent_at = IF @ = None THEN Some(now) ELSE @,
              !.sms_last_sent_at = Some(now),
              !.sms_sent_count = @ + 1]

\* The marking with one success test for both channels
SendMarkers_AnyChannel(i, email_success, sms_success) ==
    LET mailed == IF email_success + sms_success > 0 THEN mark_as_sent(i) ELSE i
    IN  IF email_success + sms_success > 0 THEN mark_sms_as_sent(mailed) ELSE mailed

\* The marking done whatever the sends returned
SendMarkers_Unconditional(i, email_success, sms_success) ==
    LET mailed == mark_as_sent(i)
    IN  IF sms_success > 0 THEN mark_sms_as_sent(mailed) ELSE mailed

\* The end of send_invitation: each channel is marked sent when at least
\* one send on it succeeded.
SendMarkers(i, email_success, sms_success) ==
    LET mailed == IF email_success > 0 THEN mark_as_sent(i) ELSE i
    IN  IF sms_success > 0 THEN mark_sms_as_sent(mailed) ELSE mailed

\* The return value computed from the email counter alone
SendResult_EmailOnly(email_success, sms_success) == email_success > 0

\* The return value of send_invitation
SendResult(email_success, sms_success) == (email_success + sms_success) > 0

\* The member loop of send_invitation over the members still to serve.
\* acc: the counters, the rows committed and the provider calls so far, and
\* whether a short token had to be generated.
RECURSIVE SendToMembers(_, _, _, _, _)
SendToMembers(i, members, channels, outcome, acc) ==
    IF members = << >> THEN acc
    ELSE LET member == Head(members)
             use_email == IF channels # None
                          THEN "email" \in The(channels) /\ email[member] # None
                          ELSE can_receive_email(member)
             use_sms == IF channels # None
                        THEN "sms" \in The(channels) /\ can_receive_sms(member)
                        ELSE can_receive_sms(member)
             mailed == IF use_email
                       THEN send_invitation_email(i, member, outcome[<<member, "email">>])
                       ELSE NoSend
             texted == IF use_sms /\ config.ENABLE_SMS
                       THEN send_invitation_sms(i, member, outcome[<<member, "sms">>])
                       ELSE NoSend
         IN  SendToMembers(i, Tail(members), channels, outcome,
                [email_success |-> acc.email_success + (IF mailed.ok THEN 1 ELSE 0),
                 sms_success |-> acc.sms_success + (IF texted.ok THEN 1 ELSE 0),
                 rows |-> acc.rows \o mailed.rows \o texted.rows,
                 calls |-> acc.calls \o mailed.calls \o texted.calls,
                 short_token |-> acc.short_token \/ (use_sms /\ config.ENABLE_SMS)])

\* InvitationService.send_invitation(invitation, channels).  channels: an
\* option; outcome: what the provider does with each send.
send_invitation(i, channels, outcome) ==
    \E sent \in {SendToMembers(i, InOrder(active_members(i.household_id)),
                                channels, outcome,
                                [email_success |-> 0, sms_success |-> 0,
                                 rows |-> << >>, calls |-> << >>,
                                 short_token |-> FALSE])} :
    \E linked \in {IF sent.short_token /\ i.short_token = None
                    THEN [i EXCEPT !.short_token = Some(<<"short", i.id>>)]
                    ELSE i} :
        /\ invitations' = (invitations \ {i})
                \cup {SendMarkers(linked, sent.email_success, sent.sms_success)}
        /\ notifications' = notifications \o sent.rows
        /\ Served([NoOp EXCEPT
                !.name = "send_invitation", !.event = Some(i.event_id),
                !.household = Some(i.household_id), !.invitation = Some(i.id),
                !.ret = Some(SendResult(sent.email_success, sent.sms_success)),
                !.calls = sent.calls])

ChannelChoices == {None, Some({"email"}), Some({"sms"}), Some({"email", "sms"})}

SendInvitation ==
    \E i \in invitations, channels \in ChannelChoices :
    \E outcome \in ProviderOutcomes(active_members(i.household_id) \X {"email", "sms"}) :
        /\ Len(notifications) < MaxLog
        /\ send_invitation(i, channels, outcome)
        /\ UNCHANGED <<registry, potluck, now, eventStatus, eventAdmins, memberships, email, rsvps,
                       posts, contact, config, referrals>>

\* InvitationService.send_invitation_to_person(invitation, person, channel).
\* channel: an option.  A successful email or SMS ends in the commit of the
\* markers; the commits that record Notification rows also carry what the
\* session holds by then.
send_invitation_to_person(i, p, channel, outcome) ==
    LET op == [NoOp EXCEPT !.name = "send_invitation_to_person",
                           !.event = Some(i.event_id), !.person = Some(p),
                           !.household = Some(i.household_id),
                           !.invitation = Some(i.id)]
        use_email == IF channel = Some("email") THEN email[p] # None
                     ELSE IF channel = Some("sms") THEN FALSE
                     ELSE can_receive_email(p)
        use_sms == IF channel = Some("email") THEN FALSE
                   ELSE IF channel = Some("sms") THEN contact[p].phone # None
                   ELSE can_receive_sms(p)
        mailed == IF use_email THEN send_invitation_email(i, p, outcome[<<p, "email">>])
                  ELSE NoSend
        texted == IF use_sms /\ config.ENABLE_SMS
                  THEN send_invitation_sms(i, p, outcome[<<p, "sms">>])
                  ELSE NoSend
        email_marked == IF mailed.ok THEN mark_as_sent(i) ELSE i
        linked == IF use_sms /\ config.ENABLE_SMS /\ i.short_token = None
                  THEN [email_marked EXCEPT !.short_token = Some(<<"short", i.id>>)]
                  ELSE email_marked
        marked == IF texted.ok THEN mark_sms_as_sent(linked) ELSE linked
    IN  IF p \notin active_members(i.household_id)
        THEN /\ UNCHANGED <<invitations, notifications>>
             /\ Served([op EXCEPT !.ret = Some(FALSE)])
        ELSE /\ invitations' =
                    IF mailed.ok \/ texted.ok \/ texted.rows # << >>
                    THEN (invitations \ {i}) \cup {marked}
                    ELSE invitations
             /\ notifications' = notifications \o mailed.rows \o texted.rows
             /\ Served([op EXCEPT !.ret = Some(mailed.ok \/ texted.ok),
                                  !.calls = mailed.calls \o texted.calls])

SendInvitationToPerson ==
    \E i \in invitations, p \in Persons, channel \in {None, Some("email"), Some("sms")} :
    \E outcome \in ProviderOutcomes({p} \X {"email", "sms"}) :
        /\ Len(notifications) < MaxLog
        /\ send_invitation_to_person(i, p, channel, outcome)
        /\ UNCHANGED <<registry, potluck, now, eventStatus, eventAdmins, memberships, email, rsvps,
                       posts, contact, config, referrals>>

---------------------------------------------------------------------------
(* Bring a friend                                                          *)

\* household_id=None as create_rsvp_for_friend passes it (household ids
\* start at 1)
NULL == 0

\* rsvps.household_id is declared nullable=False
RSVP_household_id_nullable == FALSE

\* invite_friend without its lookup of the person that owns the email
PersonByEmail_Skipped(address) == {}

\* Person.query.filter_by(email=email).first()
PersonByEmail(address) == {p \in DOMAIN email : email[p] = Some(address)}

\* Autoincrement primary key of persons
NextPerson ==
    (CHOOSE p \in DOMAIN email : \A q \in DOMAIN email : q <= p) + 1

\* GuestReferral(event_id, referrer_person_id, referred_person_id) after
\* flush, generate_token() and generate_short_token()
NewReferral(id, e, referrer, referred) ==
    [id |-> id, event_id |-> e, referrer_person_id |-> referrer,
     referred_person_id |-> referred,
     invitation_token |-> Some(ReferralToken(e, referred, id, now)),
     token_expires_at |-> Some(now + TOKEN_EXPIRATION_DAYS),
     short_token |-> Some(<<"short", id>>)]

\* BringFriendService.create_referral: the existing row or a new one
create_referral(e, referrer, referred) ==
    LET existing == {r \in referrals :
                        r.event_id = e /\ r.referred_person_id = referred}
    IN  IF existing # {} THEN CHOOSE r \in existing : TRUE
        ELSE NewReferral(NextId(referrals), e, referrer, referred)

\* BringFriendService.create_rsvp_for_friend: the existing row or a new
\* one without household
create_rsvp_for_friend(e, referred) ==
    IF RsvpsFor(e, referred) # {} THEN CHOOSE r \in RsvpsFor(e, referred) : TRUE
    ELSE NewRSVP(e, referred, NULL)

\* What send_friend_invitation_email can meet: rendering the link or the
\* template raises, or the provider call ends in one of its outcomes.
FriendOutcomes == Outcomes \cup {"TemplateError"}

\* NotificationService.send_friend_invitation_email(referral, friend_person)
\* inside the try / except of invite_friend
send_friend_invitation_email(e, friend, outcome) ==
    IF outcome = "TemplateError" THEN NoSend
    ELSE LET sent == send_email(e, friend, outcome)
         IN  [ok |-> sent.ok,
              rows |-> sent.rows \o
                       (IF sent.ok
                        THEN <<Notification(e, friend, "friend_invitation",
                                            "email", "sent")>>
                        ELSE << >>),
              calls |-> sent.calls]

\* BringFriendService.invite_friend(event, referrer_person, first_name,
\* email=address).  The commit is subject to the unique constraint on
\* persons.email and to the NOT NULL constraint on rsvps.household_id.
invite_friend(e, referrer, address, outcome) ==
    \E existing \in {IF address # None THEN PersonByEmail(The(address)) ELSE {}} :
    LET op == [NoOp EXCEPT !.name = "invite_friend", !.event = Some(e),
                           !.actor = Some(referrer), !.address = address,
                           !.outcome = Some(outcome),
                           !.fresh = \A p \in DOMAIN email : email[p] # address]
        fail(response) ==
            /\ Served([op EXCEPT !.response = response])
            /\ UNCHANGED <<email, contact, referrals, rsvps, notifications>>
    IN  IF existing # {} /\ RsvpsFor(e, CHOOSE p \in existing : TRUE) # {}
        THEN fail("already_invited")
        ELSE
        \E person \in {IF existing # {} THEN CHOOSE p \in existing : TRUE
                        ELSE NextPerson} :
        \E referral \in {create_referral(e, referrer, person)} :
        \E rsvp \in {create_rsvp_for_friend(e, person)} :
        IF existing = {} /\ address # None
           /\ \E p \in DOMAIN email : email[p] = address
        THEN fail("integrity_error")
        ELSE IF rsvp.household_id = NULL /\ ~ RSVP_household_id_nullable
        THEN fail("not_null_violation")
        ELSE
        \E sent \in {IF (IF existing = {} THEN address ELSE email[person]) # None
                      THEN send_friend_invitation_email(e, person, outcome)
                      ELSE NoSend} :
        /\ email' = IF existing = {} THEN email @@ (person :> address) ELSE email
        /\ contact' = IF existing = {} THEN contact @@ (person :> DefaultContact)
                       ELSE contact
        /\ referrals' = referrals \cup {referral}
        /\ rsvps' = rsvps \cup {rsvp}
        /\ notifications' = notifications \o sent.rows
        /\ Served([op EXCEPT !.response = "returned", !.person = Some(person),
                             !.referral = Some(referral.id),
                             !.email_sent = sent.ok, !.calls = sent.calls])

\* Addresses a guest may type for a friend: none, one of a known person,
\* or one nobody has yet.
FriendAddresses ==
    {None} \cup {Some(AddressOf(p)) : p \in Persons \cup {NextPerson}}

InviteFriend ==
    \E e \in Events, referrer \in DOMAIN email, address \in FriendAddresses,
       outcome \in (IF config.BREVO_API_KEY THEN FriendOutcomes ELSE {"sent"}) :
        /\ Cardinality(DOMAIN email) < Cardinality(Persons) + MaxFriends
        /\ invite_friend(e, referrer, address, outcome)
        /\ UNCHANGED <<registry, potluck, now, eventStatus, eventAdmins, memberships, invitations,
                       posts, config>>

---------------------------------------------------------------------------
(* Potluck                                                                 *)

Items == {1, 2, 3}
Workers == {1, 2}

\* PotluckItem(event_id, quantity_needed, is_suggested) before any claim.
\* quantity_needed is an option.
NewItem(e, quantity_needed, is_suggested) ==
    [event_id |-> e, quantity_needed |-> quantity_needed,
     is_suggested |-> is_suggested,
     claimed_by_person_id |-> None, claimed_at |-> None,
     claimer_notes |-> None, claimer_dietary_tags |-> None,
     created_by_person_id |-> None, contributors |-> << >>]

\* PotluckItem.claim_count
claim_count(i) ==
    IF /\ Len(potluckClaims[i]) = 0
       /\ potluckItems[i].is_suggested
       /\ potluckItems[i].claimed_by_person_id # None
    THEN 1
    ELSE Len(potluckClaims[i])

\* PotluckItem.is_claimed
is_claimed(i) ==
    \/ Len(potluckClaims[i]) > 0
    \/ potluckItems[i].is_suggested /\ potluckItems[i].claimed_by_person_id # None

\* is_fully_claimed that never closes an item
is_fully_claimed_Never(i) == FALSE

\* PotluckItem.is_fully_claimed
is_fully_claimed(i) ==
    IF potluckItems[i].is_suggested THEN FALSE
    ELSE IF potluckItems[i].quantity_needed = None THEN is_claimed(i)
    ELSE claim_count(i) >= The(potluckItems[i].quantity_needed)

\* self.claims.filter_by(person_id=person_id): positions of the live claims
LiveClaims(i, p) ==
    {k \in 1..Len(potluckClaims[i]) : potluckClaims[i][k].person_id = p}

\* PotluckItem.has_claim_by_person
has_claim_by_person(i, p) ==
    \/ LiveClaims(i, p) # {}
    \/ potluckItems[i].is_suggested /\ potluckItems[i].claimed_by_person_id = Some(p)

\* PotluckClaim(potluck_item_id, person_id, household_id, notes)
PotluckClaim(p, notes) ==
    [person_id |-> p, claimed_at |-> Some(now), notes |-> notes,
     dietary_tags |-> None, is_legacy |-> FALSE]

\* get_all_claims that prepends the legacy claim whatever the live claims are
get_all_claims_AlwaysLegacy(i) ==
    IF potluckItems[i].is_suggested /\ potluckItems[i].claimed_by_person_id # None
    THEN <<[person_id |-> The(potluckItems[i].claimed_by_person_id),
            claimed_at |-> potluckItems[i].claimed_at,
            notes |-> potluckItems[i].claimer_notes,
            dietary_tags |-> potluckItems[i].claimer_dietary_tags,
            is_legacy |-> TRUE]>> \o potluckClaims[i]
    ELSE potluckClaims[i]

\* PotluckItem.get_all_claims.  Every person id names a persons row, so
\* Person.query.get finds the legacy claimer.
get_all_claims(i) ==
    IF /\ potluckItems[i].is_suggested
       /\ potluckItems[i].claimed_by_person_id # None
       /\ LiveClaims(i, The(potluckItems[i].claimed_by_person_id)) = {}
    THEN <<[person_id |-> The(potluckItems[i].claimed_by_person_id),
            claimed_at |-> potluckItems[i].claimed_at,
            notes |-> potluckItems[i].claimer_notes,
            dietary_tags |-> potluckItems[i].claimer_dietary_tags,
            is_legacy |-> TRUE]>> \o potluckClaims[i]
    ELSE potluckClaims[i]

\* The checks that open PotluckService.claim_item: "full" (returns None),
\* "existing" (returns the claim found) or "insert".
claim_item_checks(i, p) ==
    IF is_fully_claimed(i) THEN "full"
    ELSE IF LiveClaims(i, p) # {} THEN "existing"
    ELSE "insert"

\* db.session.add(claim); db.session.commit() of claim_item under the
\* constraint unique_item_person_claim: the rows of the item afterwards, or
\* the rows as they were when the insert violates the constraint.
claim_item_commit(i, p, notes) ==
    IF LiveClaims(i, p) # {}
    THEN [error |-> TRUE, claims |-> potluckClaims[i]]
    ELSE [error |-> FALSE, claims |-> Append(potluckClaims[i], PotluckClaim(p, notes))]

PotluckOp(name, i, p, response) ==
    [NoOp EXCEPT !.name = name, !.item = Some(i), !.person = Some(p),
                 !.event = Some(potluckItems[i].event_id), !.response = response]

\* PotluckService.claim_item(item, person) run without interruption
claim_item(i, p, notes) ==
    \E decision \in {claim_item_checks(i, p)} :
        IF decision # "insert"
        THEN /\ UNCHANGED potluckClaims
             /\ Served(PotluckOp("claim_item", i, p, decision))
        ELSE \E done \in {claim_item_commit(i, p, notes)} :
             /\ potluckClaims' = [potluckClaims EXCEPT ![i] = done.claims]
             /\ Served(PotluckOp("claim_item", i, p,
                        IF done.error THEN "IntegrityError" ELSE "claimed"))

ClaimItem(items, people) ==
    \E i \in items, p \in people :
        /\ \A w \in Workers : claimRequests[w].pc = "idle"
        /\ claim_item(i, p, None)
        /\ UNCHANGED <<registry, messaging, now, eventStatus, eventAdmins, memberships, email,
                       invitations, rsvps, posts, potluckItems, claimRequests>>

\* PotluckService.unclaim_item(claim)
unclaim_item(i, k) ==
    /\ potluckClaims' = [potluckClaims EXCEPT ![i] =
            SubSeq(@, 1, k - 1) \o SubSeq(@, k + 1, Len(@))]
    /\ Served(PotluckOp("unclaim_item", i, potluckClaims[i][k].person_id, "unclaimed"))

UnclaimItem(items) ==
    \E i \in items :
    \E k \in 1..Len(potluckClaims[i]) :
        /\ \A w \in Workers : claimRequests[w].pc = "idle"
        /\ unclaim_item(i, k)
        /\ UNCHANGED <<registry, messaging, now, eventStatus, eventAdmins, memberships, email,
                       invitations, rsvps, posts, potluckItems, claimRequests>>

\* A worker runs claim_item up to its insert: the checks read the rows
\* committed so far.
ClaimItemBegin(items, people) ==
    \E w \in Workers, i \in items, p \in people :
        /\ claimRequests[w].pc = "idle"
        /\ \E decision \in {claim_item_checks(i, p)} :
            IF decision # "insert"
            THEN /\ UNCHANGED claimRequests
                 /\ Served(PotluckOp("claim_item", i, p, decision))
            ELSE /\ claimRequests' = [claimRequests EXCEPT ![w] =
                        [pc |-> "inserting", item |-> Some(i), person |-> Some(p)]]
                 /\ UNCHANGED <<lastOp, reqNo>>
        /\ UNCHANGED <<registry, messaging, now, eventStatus, eventAdmins, memberships, email,
                       invitations, rsvps, posts, potluckItems, potluckClaims>>

IdleRequest == [pc |-> "idle", item |-> None, person |-> None]

\* The worker inserts its claim and commits; the call ends.
ClaimItemCommit ==
    \E w \in Workers :
        /\ claimRequests[w].pc = "inserting"
        /\ \E i \in claimRequests[w].item, p \in claimRequests[w].person :
           \E done \in {claim_item_commit(i, p, None)} :
            /\ potluckClaims' = [potluckClaims EXCEPT ![i] = done.claims]
            /\ Served(PotluckOp("claim_item", i, p,
                        IF done.error THEN "IntegrityError" ELSE "claimed"))
        /\ claimRequests' = [claimRequests EXCEPT ![w] = IdleRequest]
        /\ UNCHANGED <<registry, messaging, now, eventStatus, eventAdmins, memberships, email,
                       invitations, rsvps, posts, potluckItems>>

\* PotluckService.claim_suggested_item(item, person, claimer_notes);
\* the result is the row afterwards, or None.
svc_claim_suggested_item(i, p, claimer_notes) ==
    IF potluckItems[i].claimed_by_person_id # None THEN None
    ELSE Some([potluckItems[i] EXCEPT !.claimed_by_person_id = Some(p),
                                      !.claimed_at = Some(now),
                                      !.claimer_notes = claimer_notes,
                                      !.claimer_dietary_tags = None])

\* The test "claimed by this person" of the services left out
ClaimedByPerson_Anyone(i, p) == TRUE

\* not (item.claimed_by_person_id != person.id)
ClaimedByPerson(i, p) == potluckItems[i].claimed_by_person_id = Some(p)

\* PotluckService.update_claim_details(item, person, claimer_notes)
svc_update_claim_details(i, p, claimer_notes) ==
    IF ~ ClaimedByPerson(i, p) THEN None
    ELSE Some([potluckItems[i] EXCEPT !.claimer_notes = claimer_notes,
                                      !.claimer_dietary_tags = None])

\* PotluckService.unclaim_suggested_item(item, person)
svc_unclaim_suggested_item(i, p) ==
    IF ~ ClaimedByPerson(i, p) THEN None
    ELSE Some([potluckItems[i] EXCEPT !.claimed_by_person_id = None,
                                      !.claimed_at = None,
                                      !.claimer_notes = None,
                                      !.claimer_dietary_tags = None])

\* The end of the three suggested-item routes: the service result is
\* stored when there is one.
SuggestedRoute(name, e, i, p, has_claim, no_claim, result) ==
    IF potluckItems[i].event_id # e \/ ~ potluckItems[i].is_suggested
    THEN /\ UNCHANGED potluckItems
         /\ Served(PotluckOp(name, i, p, "item_not_found"))
    ELSE IF has_claim_by_person(i, p) # has_claim
    THEN /\ UNCHANGED potluckItems
         /\ Served(PotluckOp(name, i, p, no_claim))
    ELSE IF result = None
    THEN /\ UNCHANGED potluckItems
         /\ Served(PotluckOp(name, i, p, "unable"))
    ELSE /\ potluckItems' = [potluckItems EXCEPT ![i] = The(result)]
         /\ Served(PotluckOp(name, i, p, "success"))

\* POST /event/<uuid>/potluck/suggested/<item_id>/claim as person p
route_claim_suggested_item(e, i, p, claimer_notes) ==
    SuggestedRoute("claim_suggested_item", e, i, p, FALSE, "already_claimed",
                   svc_claim_suggested_item(i, p, claimer_notes))

\* POST /event/<uuid>/potluck/suggested/<item_id>/unclaim as person p
route_unclaim_suggested_item(e, i, p) ==
    SuggestedRoute("unclaim_suggested_item", e, i, p, TRUE, "not_yours",
                   svc_unclaim_suggested_item(i, p))

\* POST /event/<uuid>/potluck/suggested/<item_id>/edit-claim as person p
route_edit_claim_details(e, i, p, claimer_notes) ==
    SuggestedRoute("edit_claim_details", e, i, p, TRUE, "not_yours",
                   svc_update_claim_details(i, p, claimer_notes))

SuggestedFrame ==
    UNCHANGED <<registry, messaging, now, eventStatus, eventAdmins, memberships, email,
                invitations, rsvps, posts, potluckClaims, claimRequests>>

ClaimSuggested(people) ==
    \E e \in Events, i \in Items, p \in people, notes \in {None, Some("note")} :
        /\ route_claim_suggested_item(e, i, p, notes)
        /\ SuggestedFrame

UnclaimSuggested(people) ==
    \E e \in Events, i \in Items, p \in people :
        /\ route_unclaim_suggested_item(e, i, p)
        /\ SuggestedFrame

EditClaimDetails(people) ==
    \E e \in Events, i \in Items, p \in people :
        /\ route_edit_claim_details(e, i, p, Some("edited"))
        /\ SuggestedFrame

\* Person.first_name and Person.last_name of the fixture persons
first_name(p) == IF p = 1 THEN "Alice" ELSE IF p = 2 THEN "Bob" ELSE "Carol"
last_name(p) == IF p = 1 THEN Some("Doe") ELSE None

\* Person.full_name
full_name(p) ==
    IF last_name(p) # None THEN first_name(p) \o " " \o The(last_name(p))
    ELSE first_name(p)

\* sep.join(names)
RECURSIVE join(_, _)
join(sep, names) ==
    IF names = << >> THEN ""
    ELSE IF Len(names) = 1 THEN names[1]
    ELSE names[1] \o sep \o join(sep, Tail(names))

\* A slice that keeps the last element
ButLast_Whole(names) == names

\* names[:-1]
ButLast(names) == SubSeq(names, 1, Len(names) - 1)

\* PotluckItem.get_claimers_display: None without claims
get_claimers_display(i) ==
    LET claims == get_all_claims(i)
        names == [k \in 1..Len(claims) |-> full_name(claims[k].person_id)]
    IN  IF claims = << >> THEN None
        ELSE IF Len(names) = 1 THEN Some(names[1])
        ELSE IF Len(names) = 2 THEN Some(names[1] \o " and " \o names[2])
        ELSE Some(join(", ", ButLast(names)) \o ", and " \o names[Len(names)])

\* PotluckItem.get_contributors_display
get_contributors_display(i) ==
    LET contributors == potluckItems[i].contributors
    IN  IF contributors = << >>
        THEN IF potluckItems[i].created_by_person_id # None
             THEN full_name(The(potluckItems[i].created_by_person_id))
             ELSE "Unknown"
        ELSE IF Len(contributors) = 1 THEN full_name(contributors[1])
        ELSE IF Len(contributors) = 2
             THEN full_name(contributors[1]) \o " and " \o full_name(contributors[2])
        ELSE join(", ", [k \in 1..Len(ButLast(contributors)) |->
                            full_name(ButLast(contributors)[k])])
                \o ", and " \o full_name(contributors[Len(contributors)])

\* Lists of distinct person ids, as unique_item_contributor admits them
ContributorLists ==
    {ids \in UNION {[1..n -> Persons] : n \in 0..Cardinality(Persons)} :
        \A j, k \in 1..Len(ids) : ids[j] = ids[k] => j = k}

\* PotluckService.update_item(item, contributor_ids) with no other field:
\* set_contributors replaces the item's contributor rows when a list is given
update_item(i, contributor_ids) ==
    /\ potluckItems' = [potluckItems EXCEPT ![i].contributors =
            IF contributor_ids = None THEN @ ELSE The(contributor_ids)]
    /\ Served([NoOp EXCEPT !.name = "update_item", !.item = Some(i),
                           !.event = Some(potluckItems[i].event_id),
                           !.response = "updated"])

UpdateItem(items) ==
    \E i \in items, contributor_ids \in {None} \cup {Some(ids) : ids \in ContributorLists} :
        /\ \A w \in Workers : claimRequests[w].pc = "idle"
        /\ update_item(i, contributor_ids)
        /\ UNCHANGED <<registry, messaging, now, eventStatus, eventAdmins, memberships, email,
                       invitations, rsvps, posts, potluckClaims, claimRequests>>

---------------------------------------------------------------------------
(* Short tokens                                                            *)

Kinds == {"invitation", "person_link", "referral"}

\* What secrets.token_urlsafe can return
RandomTokens == {"a", "b"}

\* max_attempts of EventInvitation.generate_short_token and
\* PersonInvitationLink.generate_short_token
max_attempts == 5

\* A token drawn at random; id and stamp are options
RandomToken(candidate) == [id |-> None, random |-> candidate, stamp |-> None]

\* f"{self.id}_{secrets.token_urlsafe(4)}"
InvitationFallback(row, candidate) ==
    [id |-> Some(row), random |-> candidate, stamp |-> None]

\* f"{secrets.token_urlsafe(6)}_{int(datetime.utcnow().timestamp()) % 10000}"
LinkFallback(candidate) ==
    [id |-> None, random |-> candidate, stamp |-> Some(now % 10000)]

\* <Model>.query.filter_by(short_token=token).first()
Existing(kind, token) ==
    {k \in 1..Len(shortTokens[kind]) : shortTokens[kind][k] = token}

IdleGenerator == [pc |-> "idle", kind |-> "none", row |-> 0, attempts |-> 0]

\* A row of the kind is created and generate_short_token is called for it.
StartGeneration ==
    \E kind \in Kinds :
        /\ generator.pc = "idle"
        /\ Len(shortTokens[kind]) < MaxRows
        /\ generator' = [pc |-> "drawing", kind |-> kind,
                         row |-> Len(shortTokens[kind]) + 1, attempts |-> 0]
        /\ UNCHANGED <<potluck, messaging, core, shortTokens, authTokens, halfHours,
                       tags, personTags, lastOp, reqNo>>

\* The call returns token: the row is stored with it.
Yield(token) ==
    /\ shortTokens' = [shortTokens EXCEPT ![generator.kind] = Append(@, token)]
    /\ generator' = IdleGenerator

\* One pass of the loop of generate_short_token: a candidate is drawn and
\* looked up.  EventInvitation and PersonInvitationLink leave the loop after
\* max_attempts passes with their fallback token; GuestReferral loops
\* (while True) until a candidate is free.
DrawToken ==
    \E candidate \in RandomTokens, spare \in RandomTokens :
        /\ generator.pc = "drawing"
        /\ IF Existing(generator.kind, RandomToken(candidate)) = {}
           THEN Yield(RandomToken(candidate))
           ELSE IF generator.kind = "referral"
           THEN UNCHANGED <<shortTokens, generator>>
           ELSE IF generator.attempts + 1 < max_attempts
           THEN /\ generator' = [generator EXCEPT !.attempts = @ + 1]
                /\ UNCHANGED shortTokens
           ELSE IF generator.kind = "invitation"
           THEN Yield(InvitationFallback(generator.row, spare))
           ELSE Yield(LinkFallback(spare))
        /\ UNCHANGED <<potluck, messaging, core, authTokens, halfHours,
                       tags, personTags, lastOp, reqNo>>

---------------------------------------------------------------------------
(* Authentication tokens                                                   *)

\* Settings of config.py, in half hours
MAGIC_LINK_EXPIRATION == 1
PASSWORD_RESET_EXPIRATION == 2
AUTH_TOKEN_RATE_LIMIT == 2

\* timedelta(hours=1), in half hours
OneHour == 2

TokenTypes == {"magic_link", "password_reset"}

\* The ids of the auth_tokens rows that can exist
TokenIds == {1, 2, 3}

\* AuthToken.is_expired
is_expired(t) == halfHours > t.expires_at

\* is_valid that does not read the used-at marker
is_valid_IgnoresUse(t) == ~ is_expired(t)

\* AuthToken.is_valid
is_valid(t) == ~ is_expired(t) /\ t.used_at = None

\* AuthToken.verify_token(token_string, token_type): the rows it returns
\* (none: it returns None).  The token string of a row is its id.
AuthToken_verify_token(token_string, token_type) ==
    {t \in authTokens : /\ t.id = token_string
                         /\ t.token_type = token_type
                         /\ is_valid(t)}

\* AuthToken.mark_as_used on the row t of a table
mark_as_used(rows, t) == (rows \ {t}) \cup {[t EXCEPT !.used_at = Some(halfHours)]}

\* AuthService.check_rate_limit(person_id, token_type)
check_rate_limit(p, token_type) ==
    Cardinality({t \in authTokens : /\ t.person_id = p
                                    /\ t.token_type = token_type
                                    /\ t.created_at >= halfHours - OneHour})
        >= AUTH_TOKEN_RATE_LIMIT

\* _invalidate_existing_tokens that marks nothing
invalidate_existing_tokens_Skipped(p, token_type) == authTokens

\* AuthService._invalidate_existing_tokens(person_id, token_type)
invalidate_existing_tokens(p, token_type) ==
    {IF t.person_id = p /\ t.token_type = token_type /\ t.used_at = None
     THEN [t EXCEPT !.used_at = Some(halfHours)] ELSE t : t \in authTokens}

AuthOp(name, p, token, response) ==
    [NoOp EXCEPT !.name = name, !.person = p, !.token = token, !.response = response]

\* AuthService.create_magic_link_token(person) and
\* AuthService.create_password_reset_token(person)
create_auth_token(p, token_type, expiration) ==
    IF check_rate_limit(p, token_type)
    THEN /\ UNCHANGED authTokens
         /\ Served(AuthOp("create_" \o token_type \o "_token", Some(p), None,
                           "rate_limited"))
    ELSE \E id \in {NextId(authTokens)} :
         /\ authTokens' = invalidate_existing_tokens(p, token_type) \cup
                {[id |-> id, person_id |-> p, token_type |-> token_type,
                  created_at |-> halfHours, expires_at |-> halfHours + expiration,
                  used_at |-> None]}
         /\ Served(AuthOp("create_" \o token_type \o "_token", Some(p), Some(id),
                           "issued"))

AuthFrame ==
    UNCHANGED <<potluck, messaging, core, shortTokens, generator, halfHours,
                tags, personTags>>

CreateAuthToken(people) ==
    \E p \in people, token_type \in TokenTypes :
        /\ NextId(authTokens) \in TokenIds
        /\ create_auth_token(p, token_type,
                             IF token_type = "magic_link" THEN MAGIC_LINK_EXPIRATION
                             ELSE PASSWORD_RESET_EXPIRATION)
        /\ AuthFrame

\* GET /verify-magic-link/<token>: AuthService.verify_magic_link_token
verify_magic_link(token_string) ==
    \E found \in {AuthToken_verify_token(token_string, "magic_link")} :
        IF found = {}
        THEN /\ UNCHANGED authTokens
             /\ Served(AuthOp("verify_magic_link", None, Some(token_string), "invalid"))
        ELSE /\ authTokens' = mark_as_used(authTokens, The(found))
             /\ Served(AuthOp("verify_magic_link", Some(The(found).person_id),
                               Some(token_string), "logged_in"))

VerifyMagicLink ==
    \E token_string \in TokenIds :
        /\ verify_magic_link(token_string)
        /\ AuthFrame

\* /reset-password/<token>.  method: GET or POST; acceptable: both password
\* fields are given, equal and long enough.
reset_password(token_string, method, acceptable) ==
    \E found \in {AuthToken_verify_token(token_string, "password_reset")} :
        IF found = {}
        THEN /\ UNCHANGED authTokens
             /\ Served(AuthOp("reset_password", None, Some(token_string), "invalid"))
        ELSE IF method = "GET"
        THEN /\ UNCHANGED authTokens
             /\ Served(AuthOp("reset_password", Some(The(found).person_id),
                               Some(token_string), "form"))
        ELSE IF ~ acceptable
        THEN /\ UNCHANGED authTokens
             /\ Served(AuthOp("reset_password", Some(The(found).person_id),
                               Some(token_string), "password_rejected"))
        ELSE \* person.set_password; AuthService.use_password_reset_token
             /\ authTokens' = IF is_valid(The(found))
                              THEN mark_as_used(authTokens, The(found))
                              ELSE authTokens
             /\ Served(AuthOp("reset_password", Some(The(found).person_id),
                               Some(token_string), "password_reset"))

ResetPassword ==
    \E token_string \in TokenIds, method \in {"GET", "POST"}, acceptable \in BOOLEAN :
        /\ reset_password(token_string, method, acceptable)
        /\ AuthFrame

\* Half an hour passes
HalfHour ==
    /\ halfHours < MaxHalfHours
    /\ halfHours' = halfHours + 1
    /\ UNCHANGED <<potluck, messaging, core, shortTokens, generator, authTokens,
                   tags, personTags, lastOp, reqNo>>

---------------------------------------------------------------------------
(* Tags                                                                    *)

\* Tag names as callers give them
TagNames == {"vegan", " Vegan", "nut-free"}

\* tag_name.strip().lower()
Normalized(tag_name) == IF tag_name = " Vegan" THEN "vegan" ELSE tag_name

\* Tag.get_or_create(name): the tags table with the row for the name
get_or_create(name) ==
    IF Normalized(name) \in DOMAIN tags THEN tags
    ELSE tags @@ (Normalized(name) :> 0)

\* add_tag without its lookup of the person's existing tag
ExistingPersonTag_Skipped(p, tag) == {}

\* PersonTag.query.filter_by(person_id, tag_id).first()
ExistingPersonTag(p, tag) ==
    {pt \in personTags : pt.person_id = p /\ pt.tag = tag}

\* Tag.increment_usage
increment_usage(count) == count + 1

\* Tag.decrement_usage
decrement_usage(count) == IF count > 0 THEN count - 1 ELSE count

TagOp(name, p, tag_name, response) ==
    [NoOp EXCEPT !.name = name, !.person = Some(p), !.address = Some(tag_name),
                 !.response = response]

\* Person.add_tag(tag_name) followed by the commit of its caller; when it
\* returns None the caller answers 400 and commits nothing.
add_tag(p, tag_name) ==
    \E table \in {get_or_create(tag_name)}, tag \in {Normalized(tag_name)} :
        IF ExistingPersonTag(p, tag) # {}
        THEN /\ UNCHANGED <<tags, personTags>>
             /\ Served(TagOp("add_tag", p, tag_name, "None"))
        ELSE /\ personTags' = personTags \cup {[person_id |-> p, tag |-> tag]}
             /\ tags' = [table EXCEPT ![tag] = increment_usage(@)]
             /\ Served(TagOp("add_tag", p, tag_name, "added"))

\* Person.remove_tag(tag_name) followed by the commit of its caller
remove_tag(p, tag_name) ==
    \E tag \in {Normalized(tag_name)} :
        IF tag \notin DOMAIN tags \/ ExistingPersonTag(p, tag) = {}
        THEN /\ UNCHANGED <<tags, personTags>>
             /\ Served(TagOp("remove_tag", p, tag_name, "False"))
        ELSE /\ personTags' = personTags \ ExistingPersonTag(p, tag)
             /\ tags' = [tags EXCEPT ![tag] = decrement_usage(@)]
             /\ Served(TagOp("remove_tag", p, tag_name, "True"))

TagFrame ==
    UNCHANGED <<potluck, messaging, core, shortTokens, generator, authTokens,
                halfHours>>

AddTag ==
    \E p \in Persons, tag_name \in TagNames :
        /\ add_tag(p, tag_name)
        /\ TagFrame

RemoveTag ==
    \E p \in Persons, tag_name \in TagNames :
        /\ remove_tag(p, tag_name)
        /\ TagFrame

---------------------------------------------------------------------------
(* Phone numbers                                                           *)

\* A phone number is a string: a sequence of characters.
Digits == {"0", "1", "2", "3", "4", "5", "6", "7", "8", "9"}
IsDigit(c) == c \in Digits

\* str.startswith
startswith(s, prefix) ==
    Len(s) >= Len(prefix) /\ SubSeq(s, 1, Len(prefix)) = prefix

\* str.strip(), as far as startswith("+") reads it: leading blanks go
RECURSIVE strip(_)
strip(s) == IF s # << >> /\ Head(s) = " " THEN strip(Tail(s)) ELSE s

\* re.sub(r"[^\d]", "", phone)
digits_only(phone) == SelectSeq(phone, IsDigit)

\* The length branches of format_phone_e164, before the final validation
e164_candidate(phone, default_country_code) ==
    LET d == digits_only(phone)
        has_plus == startswith(strip(phone), <<"+">>)
    IN  IF Len(d) = 10 THEN Some(<<"+">> \o default_country_code \o d)
        ELSE IF Len(d) = 11 /\ startswith(d, default_country_code)
             THEN Some(<<"+">> \o d)
        ELSE IF Len(d) = 11 /\ startswith(d, <<"1">>) THEN Some(<<"+">> \o d)
        ELSE IF has_plus /\ Len(d) >= 10 THEN Some(<<"+">> \o d)
        ELSE None

\* format_phone_e164 that puts the country code in front of every number
format_phone_e164_AlwaysPrefixed(phone, default_country_code) ==
    IF digits_only(phone) = << >> THEN None
    ELSE Some(<<"+">> \o default_country_code \o digits_only(phone))

\* format_phone_e164(phone, default_country_code): None when it refuses
format_phone_e164(phone, default_country_code) ==
    IF phone = << >> \/ digits_only(phone) = << >> THEN None
    ELSE LET formatted == e164_candidate(phone, default_country_code)
         IN IF formatted = None THEN None
            ELSE IF /\ startswith(The(formatted), <<"+">> \o default_country_code)
                    /\ Len(The(formatted)) = 12
                 THEN formatted
            ELSE IF /\ startswith(The(formatted), <<"+">>)
                    /\ 11 <= Len(The(formatted))
                    /\ Len(The(formatted)) <= 16
                 THEN formatted
            ELSE None

default_country_code == <<"1">>

\* Person.normalize_phone followed by Person.normalize_optional_fields, as
\* the before_insert / before_update listeners run them on the phone column
normalize_fields(phone) ==
    IF phone = None \/ phone = Some(<< >>) THEN None
    ELSE IF format_phone_e164(The(phone), default_country_code) # None
         THEN format_phone_e164(The(phone), default_country_code)
    ELSE IF strip(The(phone)) = << >> THEN None
    ELSE phone

---------------------------------------------------------------------------
(* Guest directory management                                              *)

Roles == {"adult", "child"}

\* A household_memberships row
HouseholdMembership(p, h, role, joined_at) ==
    [person_id |-> p, household_id |-> h, role |-> role, joined_at |-> joined_at,
     left_at |-> None]

\* HouseholdMembership.query.filter_by(person_id, left_at=None)
ActiveMemberships(p) == {m \in memberships : m.person_id = p /\ m.left_at = None}

\* The form edit_person validates: PersonForm(obj=person) takes the posted
\* fields, then the handler assigns the current household to
\* form.household_id.data before validate_on_submit reads it.
PersonForm(posted, membership) ==
    [posted EXCEPT !.household_id = membership.household_id]

\* The posted fields of the person form
PostedForms(households, roles, mails, phones) ==
    [household_id : households, role : roles, email : mails, phone : phones,
     valid : BOOLEAN]

GuestOp(p, posted, response, membership) ==
    [NoOp EXCEPT !.name = "edit_person", !.person = Some(p),
                 !.household = Some(posted.household_id),
                 !.status = Some(posted.role), !.address = posted.phone,
                 !.updated = membership, !.response = response]

\* routes/guests.py edit_person, POST
edit_person(p, posted) ==
    IF ActiveMemberships(p) = {}
    THEN /\ UNCHANGED <<memberships, email, contact>>
         /\ Served(GuestOp(p, posted, "not_in_household", {}))
    ELSE \E membership \in ActiveMemberships(p) :
         \E form \in {PersonForm(posted, membership)} :
            IF ~ form.valid
            THEN /\ UNCHANGED <<memberships, email, contact>>
                 /\ Served(GuestOp(p, posted, "form", {membership}))
            ELSE IF form.email # None /\ \E q \in Persons \ {p} : email[q] = form.email
            THEN \* persons.email is unique: the commit raises, the handler rolls back
                 /\ UNCHANGED <<memberships, email, contact>>
                 /\ Served(GuestOp(p, posted, "error", {membership}))
            ELSE /\ email' = [email EXCEPT ![p] = form.email]
                 /\ contact' = [contact EXCEPT ![p].phone = normalize_fields(form.phone)]
                 /\ memberships' =
                      IF membership.household_id # form.household_id
                      THEN (memberships \ {membership}) \cup
                           { [membership EXCEPT !.role = form.role,
                                                !.left_at = Some(now)],
                             HouseholdMembership(p, form.household_id, form.role, now) }
                      ELSE (memberships \ {membership}) \cup
                           { [membership EXCEPT !.role = form.role] }
                 /\ Served(GuestOp(p, posted, "updated", {membership}))

EditPerson(people, forms) ==
    \E p \in people, posted \in forms :
        /\ edit_person(p, posted)
        /\ UNCHANGED <<registry, potluck, now, eventStatus, eventAdmins, invitations,
                       rsvps, posts, config, notifications, referrals>>

---------------------------------------------------------------------------
(* Fixture states                                                          *)

Membership(p, h) == HouseholdMembership(p, h, "adult", 0)

\* Persons 1 and 2 share household 1; person 2 has no email address.
\* Person 3 lives in household 2 and organizes both events.
InitCommon ==
    /\ now = 0
    /\ eventStatus = [e \in Events |-> "published"]
    /\ eventAdmins = {<<1, 3>>, <<2, 3>>, <<2, 1>>}
    /\ posts = << >>
    /\ notifications = << >>
    /\ referrals = {}
    /\ potluckItems = [i \in Items |->
            IF i = 1 THEN NewItem(1, Some(1), FALSE)
            ELSE IF i = 2 THEN NewItem(1, None, TRUE)
            ELSE NewItem(1, Some(2), FALSE)]
    /\ potluckClaims = [i \in Items |-> << >>]
    /\ claimRequests = [w \in Workers |-> IdleRequest]
    /\ shortTokens = [kind \in Kinds |-> << >>]
    /\ generator = IdleGenerator
    /\ authTokens = {}
    /\ halfHours = 0
    /\ tags = << >>
    /\ personTags = {}
    /\ lastOp = NoOp
    /\ reqNo = 0

InitPeople ==
    /\ memberships = {Membership(1, 1), Membership(2, 1), Membership(3, 2)}
    /\ email = [p \in Persons |-> IF p = 2 THEN None ELSE Some(AddressOf(p))]
    /\ contact = [p \in Persons |-> DefaultContact]

InitDirectory ==
    /\ InitCommon
    /\ InitPeople
    /\ config = DefaultConfig

\* Household 1 has been invited to event 1 (create_invitation at day 0).
FirstInvitation ==
    /\ invitations = {[id |-> 1, event_id |-> 1, household_id |-> 1,
                       invitation_token |-> Some(InvitationToken(1, 1, 0)),
                       token_expires_at |-> Some(TOKEN_EXPIRATION_DAYS),
                       short_token |-> None,
                       sent_at |-> None, sent_count |-> 0, last_sent_at |-> None,
                       sms_sent_at |-> None, sms_sent_count |-> 0,
                       sms_last_sent_at |-> None]}
    /\ rsvps = {NewRSVP(1, 1, 1), NewRSVP(1, 2, 1)}

InitInvited == InitDirectory /\ FirstInvitation

---------------------------------------------------------------------------
(* Inputs the specifications draw from                                     *)

AllNotes == {None} \cup {Some(n) : n \in Notes}

RsvpForms ==
    Forms({1, 2}, AllNotes, {None}) \cup Forms({2}, {None}, {Some("given")}) \cup BadForms
SmallForms == Forms({1}, {None}, {None})
TokenForms == {FormOf((1 :> "attending"), None, None)}

HostAllBodies == HostBodies(valid_statuses \cup {"bogus"}, AllNotes)
HostSmallBodies == HostBodies({"attending", "no_response"}, {None})

---------------------------------------------------------------------------
(* SpecRsvp: an invited household answers, the host corrects               *)

NextRsvp ==
    \/ SubmitRsvp(RsvpForms)
    \/ HostUpdate(HostSmallBodies)

SpecRsvp == InitInvited /\ [][NextRsvp]_vars

---------------------------------------------------------------------------
(* SpecInvite: organizers build guest lists                                *)

InitInvite ==
    /\ InitDirectory
    /\ invitations = {}
    /\ rsvps = {}

NextInvite ==
    \/ CreateInvitation
    \/ CopyGuestList
    \/ EventDashboard
    \/ RsvpForm

SpecInvite == InitInvite /\ [][NextInvite]_vars

---------------------------------------------------------------------------
(* SpecHost: host overrides next to the RSVP form                          *)

NextHost ==
    \/ RsvpForm
    \/ HostUpdate(HostAllBodies)

SpecHost == InitInvited /\ [][NextHost]_vars

---------------------------------------------------------------------------
(* SpecArchive: guests and hosts act while events get archived             *)

NextArchive ==
    \/ ArchiveEvent
    \/ SubmitRsvp(SmallForms)
    \/ HostUpdate(HostSmallBodies)
    \/ PostMessage

SpecArchive == InitInvited /\ [][NextArchive]_vars

---------------------------------------------------------------------------
(* SpecToken: tokens are presented as the days pass                        *)

NextToken ==
    \/ Tick
    \/ VerifyInvitationToken
    \/ VerifyReferralToken
    \/ RsvpForm
    \/ SubmitRsvp(TokenForms)

SpecToken == InitInvited /\ [][NextToken]_vars

\* Direct service calls next to the screened route
ServiceMaps == ServiceData(Persons, {"attending", "not_attending", "bogus"})
NextService == ServiceUpdate(ServiceMaps) \/ SubmitRsvp(SmallForms \cup BadForms)

SpecService == InitInvited /\ [][NextService]_vars

\* Contact profiles of household 1 and deployment settings under which
\* invitations are sent: email only; SMS only; nobody reachable; both
\* channels; SMS wanted but disabled; no provider key.
SmsContact ==
    [phone |-> Some("phone"), sms_opt_in |-> TRUE, preferred_contact_method |-> "sms"]
BothContact ==
    [phone |-> Some("phone"), sms_opt_in |-> TRUE, preferred_contact_method |-> "both"]

Mails(addressed) ==
    [p \in Persons |-> IF p \in addressed THEN Some(AddressOf(p)) ELSE None]

Contacts(first, second) ==
    [p \in Persons |-> IF p = 1 THEN first ELSE IF p = 2 THEN second
                                    ELSE DefaultContact]

SendScenarios ==
    {[email |-> Mails({1, 3}), contact |-> Contacts(DefaultContact, DefaultContact),
      config |-> [BREVO_API_KEY |-> TRUE, ENABLE_SMS |-> FALSE]],
     [email |-> Mails({3}), contact |-> Contacts(SmsContact, DefaultContact),
      config |-> [BREVO_API_KEY |-> TRUE, ENABLE_SMS |-> TRUE]],
     [email |-> Mails({3}), contact |-> Contacts(DefaultContact, DefaultContact),
      config |-> [BREVO_API_KEY |-> TRUE, ENABLE_SMS |-> TRUE]],
     [email |-> Mails({1, 3}), contact |-> Contacts(BothContact, SmsContact),
      config |-> [BREVO_API_KEY |-> TRUE, ENABLE_SMS |-> TRUE]],
     [email |-> Mails({1, 3}), contact |-> Contacts(BothContact, SmsContact),
      config |-> [BREVO_API_KEY |-> TRUE, ENABLE_SMS |-> FALSE]],
     [email |-> Mails({1, 3}), contact |-> Contacts(BothContact, DefaultContact),
      config |-> DefaultConfig]}

InitSend ==
    /\ InitCommon
    /\ memberships = {Membership(1, 1), Membership(2, 1), Membership(3, 2)}
    /\ FirstInvitation
    /\ \E scenario \in SendScenarios :
        /\ email = scenario.email
        /\ contact = scenario.contact
        /\ config = scenario.config

NextSend == SendInvitation \/ Tick

SpecSend == InitSend /\ [][NextSend]_vars

\* A person who is an active member of two households.  Invitations,
\* RSVP forms, dashboards and friend invitations from an empty guest list.
InitDual ==
    /\ InitCommon
    /\ memberships = {Membership(1, 1), Membership(2, 1), Membership(2, 2),
                      Membership(3, 2)}
    /\ email = [p \in Persons |-> IF p = 2 THEN None ELSE Some(AddressOf(p))]
    /\ contact = [p \in Persons |-> DefaultContact]
    /\ config = DefaultConfig
    /\ invitations = {}
    /\ rsvps = {}

NextDual == CreateInvitation \/ EventDashboard \/ RsvpForm \/ InviteFriend

SpecDual == InitDual /\ [][NextDual]_vars

\* Friend invitations by the guests of an invited household, with the
\* notification provider configured.
InitFriend ==
    /\ InitCommon
    /\ InitPeople
    /\ config = [BREVO_API_KEY |-> TRUE, ENABLE_SMS |-> FALSE]
    /\ FirstInvitation

NextFriend == InviteFriend \/ CreateInvitation \/ RsvpForm

SpecFriend == InitFriend /\ [][NextFriend]_vars

\* The RSVP services called with the provider configured
CommitMaps == ServiceData({1, 2}, {"attending", "not_attending"})

NextCommit == ServiceUpdate(CommitMaps) \/ ServiceUpdateRsvp

SpecCommit == InitFriend /\ [][NextCommit]_vars

\* The potluck of event 1, one request at a time
PotluckGuests == {1, 2}

NextPotluck ==
    \/ ClaimItem(Items, PotluckGuests)
    \/ UnclaimItem(Items)
    \/ ClaimSuggested(PotluckGuests)
    \/ UnclaimSuggested(PotluckGuests)
    \/ EditClaimDetails(PotluckGuests)

SpecPotluck == InitInvited /\ [][NextPotluck]_vars

\* claim_item served by two workers at once
RaceItems == {1, 2}

NextRace ==
    \/ ClaimItemBegin(RaceItems, PotluckGuests)
    \/ ClaimItemCommit
    \/ UnclaimItem(RaceItems)

SpecRace == InitInvited /\ [][NextRace]_vars

\* Short tokens generated one after the other; a call in progress goes on.
NextShort == StartGeneration \/ DrawToken

SpecShort == InitInvited /\ [][NextShort]_vars /\ WF_vars(DrawToken)

\* The people who ask for magic links and password resets
AuthPersons == {1}

NextAuth ==
    \/ CreateAuthToken(AuthPersons)
    \/ VerifyMagicLink
    \/ ResetPassword
    \/ HalfHour

SpecAuth == InitInvited /\ [][NextAuth]_vars

NextTags == AddTag \/ RemoveTag

SpecTags == InitInvited /\ [][NextTags]_vars

\* Organizers edit the people of the directory as the days pass.
GuestPhones == {None, Some(<<"5", "5", "5", "1", "2", "3", "4", "5", "6", "7">>)}
GuestForms == PostedForms(Households, Roles, {Some(AddressOf(1))}, GuestPhones)

NextGuests == EditPerson({1, 2}, GuestForms) \/ Tick

SpecGuests == InitInvited /\ [][NextGuests]_vars

\* Phone numbers as organizers type them: an optional "+", " +" or "(" in
\* front, a first digit, an optional dash, and up to MaxDigits digits.
Fives(n) == [i \in 1..n |-> "5"]
PhoneInputs ==
    { prefix \o <<first>> \o sep \o Fives(n) :
        prefix \in {<< >>, <<"+">>, <<" ", "+">>, <<"(">>},
        first \in {"1", "4"}, sep \in {<< >>, <<"-">>}, n \in 0..(MaxDigits - 1) }
    \cup {<< >>, <<" ">>}
PhoneForms ==
    {f \in PostedForms({1}, {"adult"}, {Some(AddressOf(1))},
                       {Some(phone) : phone \in PhoneInputs}) : f.valid}

NextPhone == EditPerson({1}, PhoneForms)

SpecPhone == InitInvited /\ [][NextPhone]_vars

\* Contributors are set and a suggested item is claimed by up to three people.
NextDisplay ==
    \/ UpdateItem({1})
    \/ ClaimSuggested({1})
    \/ ClaimItem({2}, Persons)
    \/ UnclaimItem({2})

SpecDisplay == InitInvited /\ [][NextDisplay]_vars

\* Organizers remove and re-create invitations while the links sent out
\* earlier are still being followed.
\* The links that can have been sent to household 1 by now
SentLinks == {InvitationToken(e, 1, ts) : e \in Events, ts \in 0..now}

NextRemove ==
    \/ RemoveInvitation({1}, {2, 3})
    \/ Reinvite({1})
    \/ SubmitWithToken(SentLinks, TokenForms)
    \/ PostWithToken(SentLinks)
    \/ ViewWithToken(SentLinks)

SpecRemove == InitInvited /\ [][NextRemove]_vars

\* Sends to a household and to single persons.  Person 1 prefers both
\* channels and has given SMS consent; person 2 has a phone number on file
\* but has not opted in to SMS.
PhoneOnFile ==
    [phone |-> Some("phone"), sms_opt_in |-> FALSE, preferred_contact_method |-> "email"]

InitPersonSend ==
    /\ InitCommon
    /\ memberships = {Membership(1, 1), Membership(2, 1), Membership(3, 2)}
    /\ FirstInvitation
    /\ email = Mails({1, 3})
    /\ contact = Contacts(BothContact, PhoneOnFile)
    /\ config \in {[BREVO_API_KEY |-> TRUE, ENABLE_SMS |-> TRUE],
                   [BREVO_API_KEY |-> TRUE, ENABLE_SMS |-> FALSE]}

NextPersonSend == SendInvitationToPerson \/ SendInvitation \/ Tick

SpecPersonSend == InitPersonSend /\ [][NextPersonSend]_vars

---------------------------------------------------------------------------
(* Properties                                                              *)

ServiceCall == lastOp.name = "update_household_rsvps"
HostCall == lastOp.name = "update_rsvp_by_host"

\* C1: after any sequence of update_status calls (self-service or host,
\* re-submissions included) every RSVP row has responded_at set if and only
\* if its status is not no_response.
C1_RespondedAtIffResponded ==
    \A r \in rsvps : (r.responded_at # None) <=> (r.status # "no_response")

\* A household member re-submitted the status the row already had.
C1_Witness ==
    /\ ServiceCall
    /\ lastOp.updated # {}
    /\ lastOp.changed = {}
    /\ \E r \in rsvps : /\ r.person_id \in lastOp.updated
                        /\ r.status = "attending"
                        /\ r.responded_at # None

\* C2: of two update_household_rsvps calls in a row with the same statuses
\* for the same members, the first (which changed a stored status)
\* dispatches exactly one notification batch and the second dispatches
\* nothing.  The second call submits what the first one stored, so no
\* submitted status differs from the stored one.
C2_SecondSubmissionSilent ==
    [][ ( /\ reqNo' # reqNo
          /\ ServiceCall /\ lastOp.changed # {}
          /\ lastOp'.name = "update_household_rsvps"
          /\ lastOp'.event = lastOp.event
          /\ lastOp'.household = lastOp.household
          /\ lastOp'.updated = lastOp.updated
          /\ lastOp'.changed = {} )
        => ( /\ lastOp.batches = 1
             /\ lastOp'.batches = 0
             /\ lastOp'.dispatched = {} ) ]_vars

\* C3: update_household_rsvps dispatches one individual RSVP confirmation
\* to each person whose submitted status differed from the stored one and
\* who has an email address, and nothing else (no combined household email).
C3_IndividualToChangedWithEmail ==
    ServiceCall =>
        lastOp.dispatched =
            {[kind |-> "rsvp_confirmation", to |-> p] :
                p \in {q \in lastOp.changed : email[q] # None}}

\* C4: create_invitation for a pair that already has an invitation returns
\* that invitation's id, leaves one invitation row for the pair and adds no
\* RSVP row for a member who already has one.
C4_CreateInvitationIdempotent ==
    [][ \A e \in Events, h \in Households :
        ( /\ reqNo' # reqNo
          /\ lastOp'.name = "create_invitation"
          /\ lastOp'.event = Some(e) /\ lastOp'.household = Some(h)
          /\ InvitationsFor(e, h) # {} )
        => ( /\ \E i \in InvitationsFor(e, h) : lastOp'.ret = Some(i.id)
             /\ Cardinality({i \in invitations' :
                               i.event_id = e /\ i.household_id = h}) = 1
             /\ \A p \in active_members(h) :
                    RsvpsFor(e, p) # {} =>
                        {r \in rsvps' : r.event_id = e /\ r.person_id = p}
                            = RsvpsFor(e, p) ) ]_vars

\* create_invitation was called again for an invited household whose
\* members have their RSVP rows.
C4_Witness ==
    /\ lastOp.name = "create_invitation"
    /\ lastOp.response = "existing"
    /\ \A p \in active_members(The(lastOp.household)) :
            RsvpsFor(The(lastOp.event), p) # {}

\* C5: in every committed state an invitation row exists only together
\* with an RSVP row, for its event, of every active member of its household.
C5_InvitationHasRsvps ==
    \A i \in invitations :
        \A p \in active_members(i.household_id) : RsvpsFor(i.event_id, p) # {}

\* C6: the household-invitation verifier returns no data for a token that
\* GuestReferral.generate_token produced, and the referral verifier returns
\* no data for a token that EventInvitation.generate_token produced.
C6_NoTokenTypeConfusion ==
    /\ ( /\ lastOp.name = "EventInvitation.verify_token"
         /\ lastOp.token \subseteq IssuedReferralTokens )
       => lastOp.ret = None
    /\ ( /\ lastOp.name = "GuestReferral.verify_token"
         /\ lastOp.token \subseteq IssuedInvitationTokens )
       => lastOp.ret = None

\* A referral token was presented to the household-invitation verifier.
C6_Witness ==
    /\ lastOp.name = "EventInvitation.verify_token"
    /\ lastOp.token # None
    /\ lastOp.token \subseteq IssuedReferralTokens
    /\ lastOp.ret = None

TokenRoutes == {"rsvp_form", "submit_rsvp", "update_household_rsvps", "post_message"}

\* C7: a request to a token-protected route is granted only while the
\* invitation row's token_expires_at has not passed.
C7_ExpiredTokenDenied ==
    \A i \in invitations :
        ( /\ lastOp.name \in TokenRoutes
          /\ lastOp.invitation = Some(i.id)
          /\ i.token_expires_at # None )
        => lastOp.at <= The(i.token_expires_at)

\* C8: once an event is archived, no request changes its RSVP rows or its
\* message-wall posts.
C8_ArchivedReadOnly ==
    [][ \A e \in Events :
        eventStatus[e] = "archived" =>
            /\ {r \in rsvps' : r.event_id = e} = {r \in rsvps : r.event_id = e}
            /\ SelectSeq(posts', LAMBDA m : m.event_id = e)
                   = SelectSeq(posts, LAMBDA m : m.event_id = e) ]_vars

\* C9: a host override naming an RSVP that does not belong to the target
\* event, or whose household holds no invitation to it, is rejected and
\* changes no RSVP row.
C9_HostOverrideGuarded ==
    [][ \A e \in Events, r \in rsvps :
        ( /\ reqNo' # reqNo
          /\ lastOp'.name = "update_rsvp_by_host"
          /\ lastOp'.event = Some(e)
          /\ lastOp'.rsvp = Some(<<r.event_id, r.person_id>>)
          /\ (r.event_id # e \/ InvitationsFor(e, r.household_id) = {}) )
        => ( /\ lastOp'.response # "200"
             /\ rsvps' = rsvps ) ]_vars

\* An admin of the event tried to override an RSVP of a household that
\* holds no invitation to it.
C9_Witness ==
    /\ HostCall
    /\ lastOp.response = "400 not_invited"

\* C10: a successful update_rsvp_by_host leaves the row with the submitted
\* status, updated_by_person_id = the acting host and updated_by_host true,
\* and hands nothing to the notification dispatch.
C10_HostOverrideStamped ==
    (HostCall /\ lastOp.response = "200") =>
        /\ \E r \in rsvps :
            /\ lastOp.rsvp = Some(<<r.event_id, r.person_id>>)
            /\ Some(r.status) = lastOp.status
            /\ r.updated_by_person_id = lastOp.actor
            /\ r.updated_by_host = TRUE
        /\ lastOp.dispatched = {}

\* A host changed the stored status of a guest's RSVP.
C10_Witness ==
    /\ HostCall
    /\ lastOp.response = "200"
    /\ lastOp.status = Some("not_attending")

\* C11: a call of update_household_rsvps whose map has an entry with a
\* status outside the enum fails with a validation error and leaves every
\* committed RSVP row as it was.
C11_InvalidStatusRejectedWhole ==
    [][ ( /\ reqNo' # reqNo
          /\ lastOp'.name = "RSVPService.update_household_rsvps"
          /\ lastOp'.invalid )
        => ( /\ lastOp'.response = "ValueError"
             /\ rsvps' = rsvps ) ]_vars

RsvpCreators == {"create_invitation", "rsvp_form", "event_dashboard", "invite_friend"}

\* C12: under create_invitation, RSVP-form views, dashboard views and
\* invite_friend calls there is at most one RSVP row per (event, person)
\* and none of these operations fails on that unique constraint, also when
\* a person is an active member of two invited households.
C12_OneRsvpPerPersonNoFailure ==
    /\ \A e \in Events, p \in DOMAIN email : Cardinality(RsvpsFor(e, p)) <= 1
    /\ lastOp.name \in RsvpCreators => lastOp.response # "integrity_error"

FriendCall == lastOp.name = "invite_friend"

\* C17: invite_friend with the email of an existing person who already has
\* an RSVP for the event fails with the already-invited error and creates
\* no Person, GuestReferral or RSVP row.
C17_AlreadyInvitedRejected ==
    [][ \A e \in Events, p \in DOMAIN email :
        ( /\ reqNo' # reqNo
          /\ lastOp'.name = "invite_friend"
          /\ lastOp'.event = Some(e)
          /\ lastOp'.address # None
          /\ lastOp'.address = email[p]
          /\ RsvpsFor(e, p) # {} )
        => ( /\ lastOp'.response = "already_invited"
             /\ email' = email
             /\ referrals' = referrals
             /\ rsvps' = rsvps ) ]_vars

\* A guest typed the address of a household member who has an RSVP.
C17_Witness ==
    /\ FriendCall
    /\ lastOp.response = "already_invited"
    /\ \E p \in DOMAIN email :
        /\ lastOp.address = email[p]
        /\ RsvpsFor(The(lastOp.event), p) # {}

\* C18: invite_friend with an email that belongs to no existing person
\* succeeds and leaves a new Person without household membership, one
\* GuestReferral from the referrer and one RSVP of the new person with
\* status no_response and no household.
C18_FriendCreated ==
    (FriendCall /\ lastOp.fresh /\ lastOp.address # None) =>
        /\ lastOp.response = "returned"
        /\ \E p \in DOMAIN email :
            /\ lastOp.person = Some(p)
            /\ email[p] = lastOp.address
            /\ ~ \E m \in memberships : m.person_id = p
            /\ Cardinality({r \in referrals :
                    /\ r.event_id = The(lastOp.event)
                    /\ r.referred_person_id = p
                    /\ Some(r.referrer_person_id) = lastOp.actor}) = 1
            /\ \E r \in rsvps :
                /\ RsvpsFor(The(lastOp.event), p) = {r}
                /\ r.status = "no_response"
                /\ r.household_id = NULL

\* C20: when the notification send of invite_friend fails or raises, the
\* call still returns normally with email_sent = false and the Person,
\* GuestReferral and RSVP it created are committed.
C20_FriendSurvivesSendFailure ==
    ( /\ FriendCall /\ lastOp.fresh /\ lastOp.address # None
      /\ lastOp.outcome # Some("sent") ) =>
        /\ lastOp.response = "returned"
        /\ lastOp.email_sent = FALSE
        /\ \E p \in DOMAIN email :
            /\ lastOp.person = Some(p)
            /\ \E r \in referrals : Some(r.id) = lastOp.referral
            /\ RsvpsFor(The(lastOp.event), p) # {}

SendCall == lastOp.name = "send_invitation"

\* The calls of the last request that the provider accepted, per channel
Succeeded(channel) ==
    {k \in 1..Len(lastOp.calls) :
        lastOp.calls[k].channel = channel /\ lastOp.calls[k].ok}

\* C13: send_invitation returns true if and only if at least one
\* member-level email or SMS send of that call succeeded.
C13_TrueIffSomeSendSucceeded ==
    SendCall =>
        (lastOp.ret = Some(TRUE) <=> Succeeded("email") \cup Succeeded("sms") # {})

\* One call in which a send succeeded and another one failed.
C13_Witness ==
    /\ SendCall
    /\ lastOp.ret = Some(TRUE)
    /\ \E k \in 1..Len(lastOp.calls) : ~ lastOp.calls[k].ok
    /\ Succeeded("sms") # {}
    /\ Succeeded("email") = {}

EmailMarkers(i) == <<i.sent_at, i.last_sent_at, i.sent_count>>
SmsMarkers(i) == <<i.sms_sent_at, i.sms_last_sent_at, i.sms_sent_count>>

\* C14: send_invitation changes an invitation's email markers only if an
\* email send of the call succeeded, and its SMS markers only if an SMS send
\* of the call succeeded.
C14_MarkersFollowChannelSuccess ==
    [][ \A before \in invitations, after \in invitations' :
        ( /\ reqNo' # reqNo
          /\ lastOp'.name = "send_invitation"
          /\ after.id = before.id )
        => ( /\ EmailMarkers(after) # EmailMarkers(before) =>
                    \E k \in 1..Len(lastOp'.calls) :
                        lastOp'.calls[k].channel = "email" /\ lastOp'.calls[k].ok
             /\ SmsMarkers(after) # SmsMarkers(before) =>
                    \E k \in 1..Len(lastOp'.calls) :
                        lastOp'.calls[k].channel = "sms" /\ lastOp'.calls[k].ok ) ]_vars

\* A call whose only successful send was an SMS: the SMS markers moved,
\* the email markers did not, although an email send was tried.
C14_Witness ==
    /\ SendCall
    /\ Succeeded("sms") # {}
    /\ Succeeded("email") = {}
    /\ \E k \in 1..Len(lastOp.calls) : lastOp.calls[k].channel = "email"
    /\ \E i \in invitations :
        /\ lastOp.invitation = Some(i.id)
        /\ i.sms_sent_count = 1
        /\ i.sent_count = 0 /\ i.sent_at = None

\* The household of the invitation has two active members, none with an
\* email address.
NoEmailPair(i) ==
    /\ Cardinality(active_members(i.household_id)) = 2
    /\ \A p \in active_members(i.household_id) : email[p] = None

\* C15 as stated: for a household of two adults without email address
\* send_invitation returns false, the invitation stays unsent and no
\* Notification row is created.
C15_NoEmailNothingSent ==
    [][ \A i \in invitations :
        ( /\ reqNo' # reqNo
          /\ lastOp'.name = "send_invitation"
          /\ lastOp'.invitation = Some(i.id)
          /\ NoEmailPair(i) )
        => ( /\ lastOp'.ret = Some(FALSE)
             /\ \A after \in invitations' :
                    after.id = i.id => after.sent_at = None /\ after.sent_count = 0
             /\ notifications' = notifications ) ]_vars

\* C15 amended: for a household of two adults without email address, none
\* of whom can receive SMS or with SMS disabled, send_invitation returns
\* false, the invitation stays unsent and no Notification row is created.
C15_NoEmailNoSmsNothingSent ==
    [][ \A i \in invitations :
        ( /\ reqNo' # reqNo
          /\ lastOp'.name = "send_invitation"
          /\ lastOp'.invitation = Some(i.id)
          /\ NoEmailPair(i)
          /\ \/ ~ config.ENABLE_SMS
             \/ \A p \in active_members(i.household_id) : ~ can_receive_sms(p) )
        => ( /\ lastOp'.ret = Some(FALSE)
             /\ \A after \in invitations' :
                    after.id = i.id => after.sent_at = None /\ after.sent_count = 0
             /\ notifications' = notifications ) ]_vars

\* An invitation was sent to a household of two members without email
\* address and without SMS, with the provider configured.
C15_Witness ==
    /\ SendCall
    /\ config.BREVO_API_KEY
    /\ lastOp.ret = Some(FALSE)
    /\ \E i \in invitations :
        /\ lastOp.invitation = Some(i.id)
        /\ NoEmailPair(i)
        /\ \A p \in active_members(i.household_id) : ~ can_receive_sms(p)

\* C16: every provider call made for an (event, person) pair appends one
\* Notification row for that pair and channel, with status sent when the
\* call succeeded and failed when it did not.
C16_EverySendAudited ==
    [][ reqNo' # reqNo =>
        /\ Len(notifications') = Len(notifications) + Len(lastOp'.calls)
        /\ \A k \in 1..Len(lastOp'.calls) :
            LET call == lastOp'.calls[k]
                row == notifications'[Len(notifications) + k]
            IN  /\ row.event_id = call.event
                /\ row.person_id = call.person
                /\ row.channel = call.channel
                /\ row.status = IF call.ok THEN "sent" ELSE "failed" ]_vars

\* A call with a failed email send and a successful SMS send, both audited.
C16_Witness ==
    /\ SendCall
    /\ \E k \in 1..Len(lastOp.calls) :
            lastOp.calls[k].channel = "email" /\ ~ lastOp.calls[k].ok
    /\ Succeeded("sms") # {}
    /\ \E k \in 1..Len(notifications) : notifications[k].status = "failed"
    /\ \E k \in 1..Len(notifications) : notifications[k].status = "sent"

UpdateCall ==
    {"RSVPService.update_rsvp", "RSVPService.update_household_rsvps"}

\* C21: whenever update_rsvp or update_household_rsvps attempts a
\* confirmation dispatch, the RSVP mutations of the call were committed
\* before it, and they are in the table after the call whether the dispatch
\* succeeded, failed at the provider or raised.
C21_CommitBeforeDispatch ==
    [][ ( /\ reqNo' # reqNo
          /\ lastOp'.name \in UpdateCall
          /\ lastOp'.dispatch_attempted )
        => ( /\ lastOp'.committed_before_dispatch
             /\ \A p \in lastOp'.updated :
                    \E r \in rsvps' :
                        /\ r.event_id = The(lastOp'.event)
                        /\ r.person_id = p
                        /\ r.status = lastOp'.data[p].status ) ]_vars

\* An update_rsvp call that changed a status and whose confirmation raised
\* while it was being rendered.
C21_Witness ==
    /\ lastOp.name = "RSVPService.update_rsvp"
    /\ lastOp.response = "TemplateError"
    /\ lastOp.dispatch_attempted
    /\ lastOp.changed # {}

\* The freeform items that need one claim
SingleItems ==
    {i \in Items : ~ potluckItems[i].is_suggested
                    /\ potluckItems[i].quantity_needed = Some(1)}

SuggestedItems == {i \in Items : potluckItems[i].is_suggested}

\* C22: a freeform item with quantity_needed = 1 that holds a claim is fully
\* claimed, and a claim_item call by a person other than the claimer
\* returns no claim and adds no claim row.
C22_SingleItemClosedAfterClaim ==
    [][ \A i \in SingleItems :
        /\ Len(potluckClaims[i]) >= 1 => is_fully_claimed(i)
        /\ ( /\ reqNo' # reqNo
             /\ lastOp'.name = "claim_item"
             /\ lastOp'.item = Some(i)
             /\ \E k \in 1..Len(potluckClaims[i]) :
                    Some(potluckClaims[i][k].person_id) # lastOp'.person )
           => ( /\ lastOp'.response = "full"
                /\ potluckClaims'[i] = potluckClaims[i] ) ]_vars

\* Item 1 is held by one person and another person's claim was turned down.
C22_Witness ==
    /\ lastOp.name = "claim_item"
    /\ lastOp.response = "full"
    /\ \E i \in SingleItems :
        /\ lastOp.item = Some(i)
        /\ Len(potluckClaims[i]) = 1
        /\ Some(potluckClaims[i][1].person_id) # lastOp.person

\* C23: a suggested item is never fully claimed, and a claim request by a
\* person who holds no claim on it succeeds although another person holds
\* one, after which both hold a claim.
C23_SuggestedTakesEveryClaim ==
    [][ \A i \in SuggestedItems :
        /\ ~ is_fully_claimed(i)
        /\ \A holder \in Persons, claimer \in Persons :
            ( /\ reqNo' # reqNo
              /\ holder # claimer
              /\ lastOp'.name = "claim_suggested_item"
              /\ lastOp'.item = Some(i)
              /\ lastOp'.person = Some(claimer)
              /\ lastOp'.response # "item_not_found"
              /\ has_claim_by_person(i, holder)
              /\ ~ has_claim_by_person(i, claimer) )
            => ( /\ lastOp'.response = "success"
                 /\ has_claim_by_person(i, holder)'
                 /\ has_claim_by_person(i, claimer)' ) ]_vars

SuggestedEdits == {"unclaim_suggested_item", "edit_claim_details"}

\* C24: an unclaim or edit-claim-details request on a suggested item made
\* by a person other than the one recorded as its claimer is rejected, and
\* the claimer, notes, dietary tags and claim time of the item and every
\* claim row stay as they were.
C24_OnlyClaimerEditsClaim ==
    [][ \A i \in SuggestedItems, claimer \in Persons :
        ( /\ reqNo' # reqNo
          /\ lastOp'.name \in SuggestedEdits
          /\ lastOp'.item = Some(i)
          /\ potluckItems[i].claimed_by_person_id = Some(claimer)
          /\ lastOp'.person # Some(claimer) )
        => ( /\ lastOp'.response # "success"
             /\ potluckItems'[i] = potluckItems[i]
             /\ potluckClaims' = potluckClaims ) ]_vars

\* A person who holds a claim row of their own on the item asked to
\* unclaim it while another person is its recorded claimer with notes.
C24_Witness ==
    /\ lastOp.name = "unclaim_suggested_item"
    /\ lastOp.response = "unable"
    /\ \E i \in SuggestedItems :
        /\ lastOp.item = Some(i)
        /\ potluckItems[i].claimed_by_person_id # None
        /\ potluckItems[i].claimed_by_person_id # lastOp.person
        /\ potluckItems[i].claimer_notes = Some("note")
        /\ LiveClaims(i, The(lastOp.person)) # {}

\* C25: claim_item calls running at once for one (item, person) pair leave
\* at most one claim row for the pair, and no call ends with an error.
C25_ConcurrentClaimBenign ==
    /\ \A i \in Items, p \in Persons : Cardinality(LiveClaims(i, p)) <= 1
    /\ lastOp.name = "claim_item" => lastOp.response # "IntegrityError"

\* C26: for a suggested item get_all_claims returns the live claims in
\* their order, preceded by one synthesized claim for the legacy claimer
\* exactly when that person has no live claim; the legacy claimer appears
\* once in the result.
C26_LegacyClaimOnce ==
    \A i \in SuggestedItems :
        LET result == get_all_claims(i)
            live == potluckClaims[i]
            legacy == potluckItems[i].claimed_by_person_id
            synthesized == {k \in 1..Len(result) : result[k].is_legacy}
        IN  /\ SubSeq(result, Len(result) - Len(live) + 1, Len(result)) = live
            /\ synthesized \subseteq {1}
            /\ legacy = None => result = live
            /\ legacy # None =>
                /\ Cardinality({k \in 1..Len(result) :
                                    result[k].person_id = The(legacy)}) = 1
                /\ LiveClaims(i, The(legacy)) = {} =>
                        /\ synthesized = {1}
                        /\ result[1].person_id = The(legacy)
                        /\ result[1].notes = potluckItems[i].claimer_notes
                /\ LiveClaims(i, The(legacy)) # {} => synthesized = {}

\* A suggested item with a legacy claimer without live claim, and a live
\* claim by somebody else.
C26_Witness ==
    \E i \in SuggestedItems :
        /\ potluckItems[i].claimed_by_person_id # None
        /\ LiveClaims(i, The(potluckItems[i].claimed_by_person_id)) = {}
        /\ Len(potluckClaims[i]) = 1
        /\ Len(get_all_claims(i)) = 2

\* C27: every call of generate_short_token returns, and no two rows of one
\* kind hold the same short token.
C27_ShortTokenAlwaysProduced ==
    /\ [](\A kind \in Kinds :
            \A j, k \in 1..Len(shortTokens[kind]) :
                shortTokens[kind][j] = shortTokens[kind][k] => j = k)
    /\ (generator.pc = "drawing") ~> (generator.pc = "idle")

TokenUses == {"logged_in", "password_reset"}

\* C28: a request logs a person in or sets a password only with a token
\* that was unused and not expired, the token is marked used by that
\* request, and a used-at marker once set stays; so no token is used twice
\* and no expired token is accepted.
C28_AuthTokenSingleUse ==
    [][ /\ \A t \in authTokens :
            t.used_at # None =>
                \E u \in authTokens' : u.id = t.id /\ u.used_at = t.used_at
        /\ ( reqNo' # reqNo /\ lastOp'.response \in TokenUses )
           => \E t \in authTokens :
                /\ Some(t.id) = lastOp'.token
                /\ t.used_at = None
                /\ halfHours <= t.expires_at
                /\ \E u \in authTokens' : u.id = t.id /\ u.used_at # None ]_vars

\* A magic link that had logged its person in was presented again before
\* its expiry and was refused.
C28_Witness ==
    /\ lastOp.name = "verify_magic_link"
    /\ lastOp.response = "invalid"
    /\ \E t \in authTokens :
        /\ Some(t.id) = lastOp.token
        /\ t.token_type = "magic_link"
        /\ t.used_at # None
        /\ halfHours <= t.expires_at
        /\ \A u \in authTokens : u.person_id = t.person_id => u.id <= t.id

\* C29: in any window of one hour at most AUTH_TOKEN_RATE_LIMIT tokens are
\* issued to one person, and a request turned down by the rate limit
\* leaves the auth_tokens table as it was.
C29_RateLimitPerPerson ==
    [][ /\ \A p \in Persons, start \in 0..MaxHalfHours :
            Cardinality({t \in authTokens' :
                            /\ t.person_id = p
                            /\ start <= t.created_at
                            /\ t.created_at <= start + OneHour})
                <= AUTH_TOKEN_RATE_LIMIT
        /\ ( reqNo' # reqNo /\ lastOp'.response = "rate_limited" )
           => authTokens' = authTokens ]_vars

\* C30: the usage_count of every tag equals the number of person_tags rows
\* that reference it, and is never negative.
C30_UsageCountMatchesRows ==
    \A tag \in DOMAIN tags :
        /\ tags[tag] = Cardinality({pt \in personTags : pt.tag = tag})
        /\ tags[tag] >= 0

\* A tag that its only holder has was added again for that person under
\* another spelling, and another tag was added and removed again.
C30_Witness ==
    /\ lastOp.name = "add_tag"
    /\ lastOp.response = "None"
    /\ lastOp.address = Some(" Vegan")
    /\ "vegan" \in DOMAIN tags
    /\ tags["vegan"] = 1
    /\ "nut-free" \in DOMAIN tags
    /\ tags["nut-free"] = 0

\* C31: an edit_person request that names another household than the
\* person's current one closes the old membership row (left_at set, the
\* other fields as they were), opens a row for the new household, and
\* leaves the person an active member of the new household only.
C31_MoveClosesOldOpensNew ==
    [][ ( /\ reqNo' # reqNo
          /\ lastOp'.name = "edit_person"
          /\ lastOp'.response = "updated" )
        => \A old \in lastOp'.updated :
             \A h \in lastOp'.household :
                old.household_id # h =>
                    /\ \E closed \in memberships' :
                          /\ closed.left_at # None
                          /\ closed = [old EXCEPT !.left_at = closed.left_at]
                    /\ \E new \in memberships' :
                          /\ new.person_id = old.person_id
                          /\ new.household_id = h
                          /\ new.left_at = None
                    /\ old.person_id \in {m.person_id : m \in
                            {x \in memberships' : x.household_id = h /\ x.left_at = None}}
                    /\ old.person_id \notin {m.person_id : m \in
                            {x \in memberships' :
                                x.household_id = old.household_id /\ x.left_at = None}} ]_vars

\* C33: a phone number that format_phone_e164 accepts is stored as its
\* E.164 form, and format_phone_e164 applied to that form, as on the next
\* save of the person, returns it unchanged.
C33_PhoneNormalizationIdempotent ==
    ( lastOp.name = "edit_person" /\ lastOp.response = "updated" )
    => \A p \in lastOp.person, raw \in lastOp.address :
         \A result \in format_phone_e164(raw, default_country_code) :
            /\ contact[p].phone = Some(result)
            /\ format_phone_e164(result, default_country_code) = Some(result)
            /\ normalize_fields(Some(result)) = Some(result)

\* A number typed with a parenthesis and a dash was stored in another,
\* canonical spelling.
C33_Witness ==
    /\ lastOp.name = "edit_person"
    /\ lastOp.response = "updated"
    /\ \E raw \in lastOp.address :
        /\ startswith(raw, <<"(">>)
        /\ format_phone_e164(raw, default_country_code) # None
        /\ contact[1].phone # Some(raw)
        /\ contact[1].phone = format_phone_e164(raw, default_country_code)

\* The text the display functions are to give for a list of names: the
\* name; "A and B"; or every name but the last followed by ", " and then
\* "and " and the last name.
RECURSIVE EachWithComma(_)
EachWithComma(names) ==
    IF names = << >> THEN "" ELSE names[1] \o ", " \o EachWithComma(Tail(names))

NamesDisplay(names) ==
    IF Len(names) = 1 THEN names[1]
    ELSE IF Len(names) = 2 THEN names[1] \o " and " \o names[2]
    ELSE EachWithComma(SubSeq(names, 1, Len(names) - 1)) \o "and " \o names[Len(names)]

\* C32: for one, two and three or more names, get_contributors_display
\* and get_claimers_display give the name, "A and B", and "A, B, and C".
C32_NamesJoinedWithOxfordComma ==
    \A i \in Items :
        /\ potluckItems[i].contributors # << >> =>
              get_contributors_display(i) =
                NamesDisplay([k \in 1..Len(potluckItems[i].contributors) |->
                                full_name(potluckItems[i].contributors[k])])
        /\ get_all_claims(i) # << >> =>
              get_claimers_display(i) =
                Some(NamesDisplay([k \in 1..Len(get_all_claims(i)) |->
                                full_name(get_all_claims(i)[k].person_id)]))

\* Three contributors on one item and three claimers on another.
C32_Witness ==
    /\ get_contributors_display(1) = "Carol, Bob, and Alice Doe"
    /\ get_claimers_display(2) = Some("Alice Doe, Carol, and Bob")

\* C35: claim_count of an item is the number of claims get_all_claims
\* returns for it.
C35_ClaimCountMatchesAllClaims ==
    \A i \in Items : claim_count(i) = Len(get_all_claims(i))

\* C34: a token-protected request served under the invitation that a
\* token of another event resolves to changes no RSVP row and no
\* message-wall post.
C34_TokenBoundToItsEvent ==
    [][ \A i \in invitations :
            ( /\ reqNo' # reqNo
              /\ lastOp'.name \in TokenRoutes
              /\ lastOp'.invitation = Some(i.id)
              /\ lastOp'.event # Some(i.event_id) )
            => /\ rsvps' = rsvps
               /\ posts' = posts ]_vars

\* C36: a person never has two valid (unused, unexpired) auth tokens of one
\* type, and a request that issues a token leaves every token of that type
\* the person had before marked used, so that it fails verification.
C36_OneValidTokenPerType ==
    [][ /\ \A t, u \in authTokens' :
            ( /\ t.person_id = u.person_id
              /\ t.token_type = u.token_type
              /\ t.used_at = None /\ halfHours' <= t.expires_at
              /\ u.used_at = None /\ halfHours' <= u.expires_at )
            => t.id = u.id
        /\ ( reqNo' # reqNo /\ lastOp'.response = "issued" )
           => \A new \in {t \in authTokens' : Some(t.id) = lastOp'.token} :
              \A old \in authTokens :
                ( old.person_id = new.person_id /\ old.token_type = new.token_type )
                => \E t \in authTokens' :
                      /\ t.id = old.id
                      /\ t.used_at # None
                      /\ t \notin {v \in authTokens' :
                                    v.id = t.id /\ v.token_type = t.token_type
                                    /\ ~ (halfHours' > v.expires_at) /\ v.used_at = None} ]_vars

\* A second magic link was just issued while the first one was unexpired;
\* the first one carries the time of that request as its used-at marker.
C36_Witness ==
    /\ lastOp.name = "create_magic_link_token"
    /\ lastOp.response = "issued"
    /\ lastOp.token = Some(2)
    /\ \E t \in authTokens :
        /\ t.id = 1
        /\ t.token_type = "magic_link"
        /\ t.person_id \in lastOp.person
        /\ t.used_at = Some(halfHours)
        /\ halfHours <= t.expires_at

\* C37: a request to a token-protected route that presents a household
\* token of an (event, household) pair without invitation row is refused
\* and changes no row; this holds in particular from the removal of the
\* pair's invitation until the pair is invited again.
C37_RemovedInvitationTokenRefused ==
    [][ ( reqNo' # reqNo /\ lastOp'.name \in TokenRoutes )
        => \A token \in lastOp'.token :
           \A token_data \in EventInvitation_verify_token(token, None) :
              ( ~ \E i \in invitations :
                    /\ i.event_id = token_data.event_id
                    /\ i.household_id = token_data.household_id )
              => /\ lastOp'.response = "denied"
                 /\ rsvps' = rsvps
                 /\ posts' = posts
                 /\ email' = email
                 /\ notifications' = notifications ]_vars

\* The invitation of household 1 to event 1 was removed while the household
\* is invited to event 2, and the link sent for event 1 has just been refused.
C37_Witness ==
    /\ lastOp.name \in TokenRoutes
    /\ lastOp.response = "denied"
    /\ lastOp.token = Some(InvitationToken(1, 1, 0))
    /\ ~ \E i \in invitations : i.event_id = 1 /\ i.household_id = 1
    /\ \E i \in invitations : i.event_id = 2 /\ i.household_id = 1

\* C38: an RSVP submission made with the token of household H for event E
\* changes only RSVP rows of event E that belong to H and to a current
\* active member of H.
C38_SubmissionTouchesOnlyOwnRows ==
    [][ ( /\ reqNo' # reqNo
          /\ lastOp'.name \in {"submit_rsvp", "update_household_rsvps"} )
        => \A token \in lastOp'.token :
           \A token_data \in EventInvitation_verify_token(token, None) :
           \A r \in (rsvps \ rsvps') \cup (rsvps' \ rsvps) :
              /\ r.event_id = token_data.event_id
              /\ r.household_id = token_data.household_id
              /\ r.person_id \in active_members(token_data.household_id) ]_vars

\* C39: on every invitation, sent_at is set exactly when sent_count is
\* positive and sms_sent_at exactly when sms_sent_count is positive; a
\* sent_at or sms_sent_at once set keeps its value and the counts never
\* decrease.
C39_SendMarkersConsistent ==
    /\ [](\A i \in invitations :
            /\ (i.sent_at # None) <=> (i.sent_count > 0)
            /\ (i.sms_sent_at # None) <=> (i.sms_sent_count > 0))
    /\ [][ \A i \in invitations : \A j \in invitations' :
                j.id = i.id =>
                    /\ i.sent_at # None => j.sent_at = i.sent_at
                    /\ i.sms_sent_at # None => j.sms_sent_at = i.sms_sent_at
                    /\ j.sent_count >= i.sent_count
                    /\ j.sms_sent_count >= i.sms_sent_count ]_vars

\* An invitation emailed on two different days and texted once.
C39_Witness ==
    \E i \in invitations :
        /\ i.sent_count = 2
        /\ i.sent_at # None
        /\ i.last_sent_at # i.sent_at
        /\ i.sms_sent_count = 1

\* C40: an invitation SMS goes to the provider only for a person who has a
\* phone number, has opted in to SMS and prefers SMS or both, and only with
\* SMS enabled.
C40_SmsOnlyWithConsent ==
    \A k \in 1..Len(lastOp.calls) :
        ( /\ lastOp.name \in {"send_invitation", "send_invitation_to_person"}
          /\ lastOp.calls[k].channel = "sms" )
        => /\ config.ENABLE_SMS
           /\ can_receive_sms(lastOp.calls[k].person)

====
